---- MODULE Spec2Model ----
(***************************************************************************)
(* Adaptive Radix Tree (ART.h): the tree as a heap of inner nodes reached  *)
(* from the root handle, with tagged-pointer leaves.                       *)
(*                                                                         *)
(* Representation.  A 64-bit machine word (uintptr_t, uint64_t, ArtNode* ) *)
(* is a function 0..7 -> 0..255 of its base-256 digits, least significant  *)
(* digit first (the x86-64 memory image of the word).  A C array is a      *)
(* function over 0..n-1.  An ArtNode** is a reference to the root handle,  *)
(* to the global nullNode, or to child[i] of the node at a heap address.   *)
(* Operations on the tree are operators from a memory M =                  *)
(* [tree, heap, nullNode] to the memory they leave behind.                 *)
(***************************************************************************)
EXTENDS Integers, FiniteSets, Sequences, TLC

VARIABLES tree, heap, nullNode, maxPrefixLength, keys

vars == <<tree, heap, nullNode, maxPrefixLength, keys>>

(***************************************************************************)
(* Bounds of the model.                                                    *)
(***************************************************************************)
\* heap cells available to new Node4/16/48/256
MaxNodes == 8
\* number of keys the caller keeps in the tree at once
MaxKeys == 5

(***************************************************************************)
(* Program constants.                                                      *)
(***************************************************************************)
NodeType4 == 0
NodeType16 == 1
NodeType48 == 2
NodeType256 == 3
emptyMarker == 48
\* static const unsigned maxPrefixLength = 9
HeaderPrefixLength == 9
\* bytes of a uintptr_t / uint64_t
WordBytes == 8
\* keyLength and maxKeyLength as the driver passes them
keyLength == 8
maxKeyLength == 8
Byte == 0..255
\* content of a header prefix byte that was never written
Uninit == -1
\* type tag of a heap cell that is not allocated
Freed == -1

(***************************************************************************)
(* Machine words.                                                          *)
(***************************************************************************)
WordIdx == 0..(WordBytes - 1)

NULL == [j \in WordIdx |-> 0]

\* the word written most significant byte first, as in a hex literal
Hex(s) == [j \in WordIdx |-> s[WordBytes - j]]

\* numeric order of two words
WordLess(a, b) ==
    \E j \in WordIdx : a[j] < b[j] /\ \A i \in WordIdx : i > j => a[i] = b[i]

\* the address of heap cell a, as a pointer word: even, so never a leaf
PtrOf(a) == [j \in WordIdx |-> IF j = 0 THEN 2 * a ELSE 0]

\* the heap cell an inner-node pointer points to
AddrOf(p) == p[0] \div 2

makeLeaf(tid) ==
    [j \in WordIdx |->
        ((tid[j] * 2) % 256) + (IF j = 0 THEN 1 ELSE tid[j - 1] \div 128)]

getLeafValue(node) ==
    [j \in WordIdx |->
        (node[j] \div 2) + (IF j < WordBytes - 1 THEN (node[j + 1] % 2) * 128 ELSE 0)]

isLeaf(node) == node[0] % 2 = 1

flipSign(keyByte) == IF keyByte >= 128 THEN keyByte - 128 ELSE keyByte + 128

bswap64(w) == [j \in WordIdx |-> w[WordBytes - 1 - j]]

\* key[0..7]: the memory image of bswap64(tid)
loadKey(tid) == [i \in 0..(maxKeyLength - 1) |-> bswap64(tid)[i]]

\* a byte read as int8_t, as the SSE comparisons read it
Signed(b) == IF b >= 128 THEN b - 256 ELSE b

SetMin(S) == CHOOSE x \in S : \A y \in S : x <= y

\* count trailing zeros of a bitfield given as the set of its set bits
ctz(bitfield) == SetMin(bitfield)

min(a, b) == IF a < b THEN a ELSE b

(***************************************************************************)
(* Nodes and references.                                                   *)
(***************************************************************************)
FreeCell ==
    [type |-> Freed, prefixLength |-> 0, count |-> 0, prefix |-> <<>>,
     key |-> <<>>, childIndex |-> <<>>, child |-> <<>>]

\* ArtNode(type): prefixLength(0), count(0); prefix[] is left unwritten
ArtNode(type) ==
    [type |-> type, prefixLength |-> 0, count |-> 0,
     prefix |-> [i \in 0..(maxPrefixLength - 1) |-> Uninit],
     key |-> <<>>, childIndex |-> <<>>, child |-> <<>>]

Node4 ==
    [ArtNode(NodeType4) EXCEPT
        !.key = [i \in 0..3 |-> 0], !.child = [i \in 0..3 |-> NULL]]

Node16 ==
    [ArtNode(NodeType16) EXCEPT
        !.key = [i \in 0..15 |-> 0], !.child = [i \in 0..15 |-> NULL]]

Node48 ==
    [ArtNode(NodeType48) EXCEPT
        !.childIndex = [b \in Byte |-> emptyMarker],
        !.child = [i \in 0..47 |-> NULL]]

Node256 ==
    [ArtNode(NodeType256) EXCEPT !.child = [b \in Byte |-> NULL]]

\* operator new: the lowest free heap cell
New(M) == SetMin({a \in 1..MaxNodes : M.heap[a].type = Freed})

\* operator delete
Delete(M, a) == [M EXCEPT !.heap[a] = FreeCell]

\* the node a pointer points to
At(M, node) == M.heap[AddrOf(node)]

TreeRef == <<"tree", 0, 0>>
NullRef == <<"nullNode", 0, 0>>
ChildRef(a, i) == <<"child", a, i>>

\* *ref
Deref(M, ref) ==
    IF ref[1] = "tree" THEN M.tree
    ELSE IF ref[1] = "nullNode" THEN M.nullNode
    ELSE M.heap[ref[2]].child[ref[3]]

\* *ref = p
Store(M, ref, p) ==
    IF ref[1] = "tree" THEN [M EXCEPT !.tree = p]
    ELSE IF ref[1] = "nullNode" THEN [M EXCEPT !.nullNode = p]
    ELSE [M EXCEPT !.heap[ref[2]].child[ref[3]] = p]

(***************************************************************************)
(* Descent primitives.                                                     *)
(***************************************************************************)
findChild(M, n, keyByte) ==
    LET a == AddrOf(n)
        node == M.heap[a]
    IN  IF node.type = NodeType4 THEN
            LET hit == {i \in 0..3 : i < node.count /\ node.key[i] = keyByte}
            IN  IF hit # {} THEN ChildRef(a, SetMin(hit)) ELSE NullRef
        ELSE IF node.type = NodeType16 THEN
            LET cmp == {i \in 0..15 : node.key[i] = flipSign(keyByte)}
                bitfield == {i \in cmp : i < node.count}
            IN  IF bitfield # {} THEN ChildRef(a, ctz(bitfield)) ELSE NullRef
        ELSE IF node.type = NodeType48 THEN
            IF node.childIndex[keyByte] # emptyMarker
            THEN ChildRef(a, node.childIndex[keyByte])
            ELSE NullRef
        ELSE ChildRef(a, keyByte)

RECURSIVE minimum(_, _)
\* a minimum that reports the value 0 for an empty tree
minimum_ZeroOnEmpty(M, node) ==
    IF node = NULL THEN makeLeaf(NULL)
    ELSE IF isLeaf(node) THEN node
    ELSE LET n == M.heap[AddrOf(node)]
         IN  IF n.type = NodeType4 \/ n.type = NodeType16 THEN
                 minimum(M, n.child[0])
             ELSE IF n.type = NodeType48 THEN
                 LET pos == CHOOSE b \in Byte :
                              /\ n.childIndex[b] # emptyMarker
                              /\ \A x \in 0..(b - 1) : n.childIndex[x] = emptyMarker
                 IN  minimum(M, n.child[n.childIndex[pos]])
             ELSE
                 LET pos == CHOOSE b \in Byte :
                              /\ n.child[b] # NULL
                              /\ \A x \in 0..(b - 1) : n.child[x] = NULL
                 IN  minimum(M, n.child[pos])

minimum(M, node) ==
    IF node = NULL THEN NULL
    ELSE IF isLeaf(node) THEN node
    ELSE LET n == At(M, node)
         IN  IF n.type = NodeType4 \/ n.type = NodeType16 THEN
                 minimum(M, n.child[0])
             ELSE IF n.type = NodeType48 THEN
                 LET pos == SetMin({b \in Byte : n.childIndex[b] # emptyMarker})
                 IN  minimum(M, n.child[n.childIndex[pos]])
             ELSE
                 LET pos == SetMin({b \in Byte : n.child[b] # NULL})
                 IN  minimum(M, n.child[pos])

SetMax(S) == CHOOSE x \in S : \A y \in S : x >= y

RECURSIVE maximum(_, _)
maximum(M, node) ==
    IF node = NULL THEN NULL
    ELSE IF isLeaf(node) THEN node
    ELSE LET n == At(M, node)
         IN  IF n.type = NodeType4 \/ n.type = NodeType16 THEN
                 maximum(M, n.child[n.count - 1])
             ELSE IF n.type = NodeType48 THEN
                 LET pos == SetMax({b \in Byte : n.childIndex[b] # emptyMarker})
                 IN  maximum(M, n.child[n.childIndex[pos]])
             ELSE
                 LET pos == SetMax({b \in Byte : n.child[b] # NULL})
                 IN  maximum(M, n.child[pos])

\* a leafMatches that takes every leaf for the right one
leafMatches_Unchecked(leaf, key, depth) == TRUE

leafMatches(leaf, key, depth) ==
    IF depth # keyLength THEN
        LET leafKey == loadKey(getLeafValue(leaf))
        IN  \A i \in depth..(keyLength - 1) : leafKey[i] = key[i]
    ELSE TRUE

\* the first pos in lo..hi-1 with key[depth+pos] # ref[off+pos], or hi
FirstDiff(key, depth, ref, off, lo, hi) ==
    LET bad == {pos \in lo..(hi - 1) : key[depth + pos] # ref[off + pos]}
    IN  IF bad # {} THEN SetMin(bad) ELSE hi

\* a mismatch past the stored bytes of the prefix, reported at their end
prefixMismatch_Capped(M, node, key, depth) ==
    LET n == At(M, node)
        minKey == loadKey(getLeafValue(minimum(M, node)))
        p == FirstDiff(key, depth, minKey, depth, 0, n.prefixLength)
    IN  IF p < n.prefixLength THEN min(p, maxPrefixLength) ELSE p

prefixMismatch(M, node, key, depth) ==
    LET n == At(M, node)
    IN  IF n.prefixLength > maxPrefixLength THEN
            LET p1 == FirstDiff(key, depth, n.prefix, 0, 0, maxPrefixLength)
            IN  IF p1 < maxPrefixLength THEN p1
                ELSE LET minKey == loadKey(getLeafValue(minimum(M, node)))
                     IN  FirstDiff(key, depth, minKey, depth,
                                   maxPrefixLength, n.prefixLength)
        ELSE FirstDiff(key, depth, n.prefix, 0, 0, n.prefixLength)

RECURSIVE lookupLoop(_, _, _, _, _)
lookupLoop(M, node, key, depth, skippedPrefix) ==
    IF node = NULL THEN NULL
    ELSE IF isLeaf(node) THEN
        IF ~skippedPrefix /\ depth = keyLength THEN node
        ELSE IF depth # keyLength THEN
            LET leafKey == loadKey(getLeafValue(node))
                from == IF skippedPrefix THEN 0 ELSE depth
            IN  IF \E i \in from..(keyLength - 1) : leafKey[i] # key[i]
                THEN NULL ELSE node
        ELSE node
    ELSE
        LET n == At(M, node)
        IN  IF n.prefixLength # 0 THEN
                IF n.prefixLength < maxPrefixLength
                   /\ \E pos \in 0..(n.prefixLength - 1) :
                          key[depth + pos] # n.prefix[pos]
                THEN NULL
                ELSE LET d == depth + n.prefixLength
                     IN  lookupLoop(M, Deref(M, findChild(M, node, key[d])), key,
                                    d + 1,
                                    skippedPrefix
                                      \/ ~(n.prefixLength < maxPrefixLength))
            ELSE lookupLoop(M, Deref(M, findChild(M, node, key[depth])), key,
                            depth + 1, skippedPrefix)

lookup(M, node, key, depth) == lookupLoop(M, node, key, depth, FALSE)

RECURSIVE lookupPessimistic(_, _, _, _)
lookupPessimistic(M, node, key, depth) ==
    IF node = NULL THEN NULL
    ELSE IF isLeaf(node) THEN
        IF leafMatches(node, key, depth) THEN node ELSE NULL
    ELSE
        LET n == At(M, node)
        IN  IF prefixMismatch(M, node, key, depth) # n.prefixLength THEN NULL
            ELSE LET d == depth + n.prefixLength
                 IN  lookupPessimistic(M, Deref(M, findChild(M, node, key[d])),
                                       key, d + 1)

(***************************************************************************)
(* Insert.                                                                 *)
(***************************************************************************)
\* memcpy / memmove of n array elements: dst[dOff..dOff+n) = src[sOff..sOff+n)
Memcpy(dst, dOff, src, sOff, n) ==
    [i \in DOMAIN dst |->
        IF dOff <= i /\ i < dOff + n THEN src[sOff + (i - dOff)] ELSE dst[i]]

\* a copy of the length of the prefix without its bytes
copyPrefix_LengthOnly(src, dst) ==
    [dst EXCEPT !.prefixLength = src.prefixLength]

copyPrefix(src, dst) ==
    [dst EXCEPT
        !.prefixLength = src.prefixLength,
        !.prefix = Memcpy(dst.prefix, 0, src.prefix, 0,
                          min(src.prefixLength, maxPrefixLength))]

insertNode256(M, a, nodeRef, keyByte, child) ==
    LET node == M.heap[a]
    IN  [M EXCEPT !.heap[a] =
            [node EXCEPT !.count = node.count + 1, !.child[keyByte] = child]]

\* an insertNode48 that always takes slot count, also when it is in use
insertNode48_NoScan(M, a, nodeRef, keyByte, child) ==
    LET node == M.heap[a]
    IN  IF node.count < 48 THEN
            [M EXCEPT !.heap[a] =
                [node EXCEPT !.child[node.count] = child,
                             !.childIndex[keyByte] = node.count,
                             !.count = node.count + 1]]
        ELSE
            LET a2 == New(M)
                newNode ==
                    copyPrefix(node,
                        [Node256 EXCEPT
                            !.child = [i \in Byte |->
                                IF node.childIndex[i] # 48
                                THEN node.child[node.childIndex[i]]
                                ELSE NULL],
                            !.count = node.count])
                M1 == Store([M EXCEPT !.heap[a2] = newNode], nodeRef, PtrOf(a2))
            IN  insertNode256(Delete(M1, a), a2, nodeRef, keyByte, child)

insertNode48(M, a, nodeRef, keyByte, child) ==
    LET node == M.heap[a]
    IN  IF node.count < 48 THEN
            LET pos == IF node.child[node.count] # NULL
                       THEN SetMin({i \in 0..47 : node.child[i] = NULL})
                       ELSE node.count
            IN  [M EXCEPT !.heap[a] =
                    [node EXCEPT !.child[pos] = child,
                                 !.childIndex[keyByte] = pos,
                                 !.count = node.count + 1]]
        ELSE
            LET a2 == New(M)
                newNode ==
                    copyPrefix(node,
                        [Node256 EXCEPT
                            !.child = [i \in Byte |->
                                IF node.childIndex[i] # 48
                                THEN node.child[node.childIndex[i]]
                                ELSE NULL],
                            !.count = node.count])
                M1 == Store([M EXCEPT !.heap[a2] = newNode], nodeRef, PtrOf(a2))
            IN  insertNode256(Delete(M1, a), a2, nodeRef, keyByte, child)

\* an insertElement16 that compares the flipped bytes as unsigned bytes
insertElement16_Unsigned(node, keyByte, child) ==
    LET keyByteFlipped == flipSign(keyByte)
        cmp == {i \in 0..15 : keyByteFlipped < node.key[i]}
        bitfield == {i \in cmp : i < node.count}
        pos == IF bitfield # {} THEN ctz(bitfield) ELSE node.count
    IN  [node EXCEPT
            !.key = [Memcpy(node.key, pos + 1, node.key, pos, node.count - pos)
                       EXCEPT ![pos] = keyByteFlipped],
            !.child = [Memcpy(node.child, pos + 1, node.child, pos,
                              node.count - pos)
                         EXCEPT ![pos] = child],
            !.count = node.count + 1]

\* the "insert element" branch of insertNode16: the node it leaves
insertElement16(node, keyByte, child) ==
    LET keyByteFlipped == flipSign(keyByte)
        cmp == {i \in 0..15 : Signed(keyByteFlipped) < Signed(node.key[i])}
        bitfield == {i \in cmp : i < node.count}
        pos == IF bitfield # {} THEN ctz(bitfield) ELSE node.count
    IN  [node EXCEPT
            !.key = [Memcpy(node.key, pos + 1, node.key, pos, node.count - pos)
                       EXCEPT ![pos] = keyByteFlipped],
            !.child = [Memcpy(node.child, pos + 1, node.child, pos,
                              node.count - pos)
                         EXCEPT ![pos] = child],
            !.count = node.count + 1]

insertNode16(M, a, nodeRef, keyByte, child) ==
    LET node == M.heap[a]
    IN  IF node.count < 16 THEN
            [M EXCEPT !.heap[a] = insertElement16(node, keyByte, child)]
        ELSE
            LET a2 == New(M)
                newNode ==
                    [copyPrefix(node,
                        [Node48 EXCEPT
                            !.child = Memcpy(Node48.child, 0, node.child, 0,
                                             node.count),
                            !.childIndex = [b \in Byte |->
                                LET at == {i \in 0..(node.count - 1) :
                                              flipSign(node.key[i]) = b}
                                IN  IF at # {} THEN SetMax(at) ELSE emptyMarker]])
                     EXCEPT !.count = node.count]
                M1 == Store([M EXCEPT !.heap[a2] = newNode], nodeRef, PtrOf(a2))
            IN  insertNode48(Delete(M1, a), a2, nodeRef, keyByte, child)

\* an insertElement4 that moves the keys up but not the children
insertElement4_NoChildShift(node, keyByte, child) ==
    LET stop == {p \in 0..3 : ~(p < node.count /\ node.key[p] < keyByte)}
        pos == SetMin(stop \cup {node.count})
    IN  [node EXCEPT
            !.key = [Memcpy(node.key, pos + 1, node.key, pos, node.count - pos)
                       EXCEPT ![pos] = keyByte],
            !.child[pos] = child,
            !.count = node.count + 1]

\* an insertElement4 that appends instead of keeping the keys sorted
insertElement4_Append(node, keyByte, child) ==
    [node EXCEPT
        !.key[node.count] = keyByte,
        !.child[node.count] = child,
        !.count = node.count + 1]

\* the "insert element" branch of insertNode4: the node it leaves
insertElement4(node, keyByte, child) ==
    LET stop == {p \in 0..3 : ~(p < node.count /\ node.key[p] < keyByte)}
        pos == SetMin(stop \cup {node.count})
    IN  [node EXCEPT
            !.key = [Memcpy(node.key, pos + 1, node.key, pos, node.count - pos)
                       EXCEPT ![pos] = keyByte],
            !.child = [Memcpy(node.child, pos + 1, node.child, pos,
                              node.count - pos)
                         EXCEPT ![pos] = child],
            !.count = node.count + 1]

insertNode4(M, a, nodeRef, keyByte, child) ==
    LET node == M.heap[a]
    IN  IF node.count < 4 THEN
            [M EXCEPT !.heap[a] = insertElement4(node, keyByte, child)]
        ELSE
            LET a2 == New(M)
                M0 == Store([M EXCEPT !.heap[a2] = Node16], nodeRef, PtrOf(a2))
                newNode ==
                    [copyPrefix(node, [Node16 EXCEPT !.count = 4])
                     EXCEPT
                        !.key = [i \in 0..15 |->
                                    IF i < 4 THEN flipSign(node.key[i])
                                    ELSE Node16.key[i]],
                        !.child = Memcpy(Node16.child, 0, node.child, 0,
                                         node.count)]
                M1 == [M0 EXCEPT !.heap[a2] = newNode]
            IN  insertNode16(Delete(M1, a), a2, nodeRef, keyByte, child)

\* a loop that also counts the first byte on which the two keys differ, while
\* a byte is left after it
CommonLength_PastDifference(existingKey, key, depth) ==
    LET diff == {i \in 0..(maxKeyLength - 1 - depth) :
                    existingKey[depth + i] # key[depth + i]}
    IN  IF diff = {} THEN maxKeyLength - depth
        ELSE IF depth + SetMin(diff) + 1 < maxKeyLength THEN SetMin(diff) + 1
        ELSE SetMin(diff)

\* number of bytes from depth on which the two keys agree (the while loop of
\* the leaf split); maxKeyLength - depth when they agree to the end of the buffers
CommonLength(existingKey, key, depth) ==
    LET diff == {i \in 0..(maxKeyLength - 1 - depth) :
                    existingKey[depth + i] # key[depth + i]}
    IN  IF diff # {} THEN SetMin(diff) ELSE maxKeyLength - depth

RECURSIVE insert(_, _, _, _, _, _)
\* an insert that descends into the slot findChild returns, empty or not
insert_NoChildTest(M, node, nodeRef, key, depth, value) ==
    IF node = NULL THEN Store(M, nodeRef, makeLeaf(value))
    ELSE IF isLeaf(node) THEN
        \* replace leaf with Node4 and store both leaves in it
        LET existingKey == loadKey(getLeafValue(node))
            newPrefixLength == CommonLength(existingKey, key, depth)
            a == New(M)
            newNode ==
                [Node4 EXCEPT
                    !.prefixLength = newPrefixLength,
                    !.prefix = Memcpy(Node4.prefix, 0, key, depth,
                                      min(newPrefixLength, maxPrefixLength))]
            M1 == Store([M EXCEPT !.heap[a] = newNode], nodeRef, PtrOf(a))
            M2 == insertNode4(M1, a, nodeRef,
                              existingKey[depth + newPrefixLength], node)
        IN  insertNode4(M2, a, nodeRef, key[depth + newPrefixLength],
                        makeLeaf(value))
    ELSE
        LET old == At(M, node)
            mismatchPos == IF old.prefixLength # 0
                           THEN prefixMismatch(M, node, key, depth)
                           ELSE 0
        IN  IF old.prefixLength # 0 /\ mismatchPos # old.prefixLength THEN
                \* prefix differs, create new node
                LET a == New(M)
                    newNode ==
                        [Node4 EXCEPT
                            !.prefixLength = mismatchPos,
                            !.prefix = Memcpy(Node4.prefix, 0, old.prefix, 0,
                                              min(mismatchPos, maxPrefixLength))]
                    M1 == Store([M EXCEPT !.heap[a] = newNode], nodeRef, PtrOf(a))
                    o == AddrOf(node)
                    M3 ==
                        IF old.prefixLength < maxPrefixLength THEN
                            LET M2 == insertNode4(M1, a, nodeRef,
                                                  old.prefix[mismatchPos], node)
                                len == old.prefixLength - (mismatchPos + 1)
                            IN  [M2 EXCEPT !.heap[o] =
                                    [old EXCEPT
                                        !.prefixLength = len,
                                        !.prefix = Memcpy(old.prefix, 0, old.prefix,
                                                          mismatchPos + 1,
                                                          min(len, maxPrefixLength))]]
                        ELSE
                            LET len == old.prefixLength - (mismatchPos + 1)
                                M2 == [M1 EXCEPT !.heap[o].prefixLength = len]
                                minKey == loadKey(getLeafValue(minimum(M2, node)))
                                M2b == insertNode4(M2, a, nodeRef,
                                                   minKey[depth + mismatchPos], node)
                            IN  [M2b EXCEPT !.heap[o].prefix =
                                    Memcpy(old.prefix, 0, minKey,
                                           depth + mismatchPos + 1,
                                           min(len, maxPrefixLength))]
                IN  insertNode4(M3, a, nodeRef, key[depth + mismatchPos],
                                makeLeaf(value))
            ELSE
                LET d == depth + old.prefixLength
                    child == findChild(M, node, key[d])
                    n == AddrOf(node)
                IN  IF TRUE THEN
                        insert(M, Deref(M, child), child, key, d + 1, value)
                    ELSE IF old.type = NodeType4 THEN
                        insertNode4(M, n, nodeRef, key[d], makeLeaf(value))
                    ELSE IF old.type = NodeType16 THEN
                        insertNode16(M, n, nodeRef, key[d], makeLeaf(value))
                    ELSE IF old.type = NodeType48 THEN
                        insertNode48(M, n, nodeRef, key[d], makeLeaf(value))
                    ELSE
                        insertNode256(M, n, nodeRef, key[d], makeLeaf(value))

insert(M, node, nodeRef, key, depth, value) ==
    IF node = NULL THEN Store(M, nodeRef, makeLeaf(value))
    ELSE IF isLeaf(node) THEN
        \* replace leaf with Node4 and store both leaves in it
        LET existingKey == loadKey(getLeafValue(node))
            newPrefixLength == CommonLength(existingKey, key, depth)
            a == New(M)
            newNode ==
                [Node4 EXCEPT
                    !.prefixLength = newPrefixLength,
                    !.prefix = Memcpy(Node4.prefix, 0, key, depth,
                                      min(newPrefixLength, maxPrefixLength))]
            M1 == Store([M EXCEPT !.heap[a] = newNode], nodeRef, PtrOf(a))
            M2 == insertNode4(M1, a, nodeRef,
                              existingKey[depth + newPrefixLength], node)
        IN  insertNode4(M2, a, nodeRef, key[depth + newPrefixLength],
                        makeLeaf(value))
    ELSE
        LET old == At(M, node)
            mismatchPos == IF old.prefixLength # 0
                           THEN prefixMismatch(M, node, key, depth)
                           ELSE 0
        IN  IF old.prefixLength # 0 /\ mismatchPos # old.prefixLength THEN
                \* prefix differs, create new node
                LET a == New(M)
                    newNode ==
                        [Node4 EXCEPT
                            !.prefixLength = mismatchPos,
                            !.prefix = Memcpy(Node4.prefix, 0, old.prefix, 0,
                                              min(mismatchPos, maxPrefixLength))]
                    M1 == Store([M EXCEPT !.heap[a] = newNode], nodeRef, PtrOf(a))
                    o == AddrOf(node)
                    M3 ==
                        IF old.prefixLength < maxPrefixLength THEN
                            LET M2 == insertNode4(M1, a, nodeRef,
                                                  old.prefix[mismatchPos], node)
                                len == old.prefixLength - (mismatchPos + 1)
                            IN  [M2 EXCEPT !.heap[o] =
                                    [old EXCEPT
                                        !.prefixLength = len,
                                        !.prefix = Memcpy(old.prefix, 0, old.prefix,
                                                          mismatchPos + 1,
                                                          min(len, maxPrefixLength))]]
                        ELSE
                            LET len == old.prefixLength - (mismatchPos + 1)
                                M2 == [M1 EXCEPT !.heap[o].prefixLength = len]
                                minKey == loadKey(getLeafValue(minimum(M2, node)))
                                M2b == insertNode4(M2, a, nodeRef,
                                                   minKey[depth + mismatchPos], node)
                            IN  [M2b EXCEPT !.heap[o].prefix =
                                    Memcpy(old.prefix, 0, minKey,
                                           depth + mismatchPos + 1,
                                           min(len, maxPrefixLength))]
                IN  insertNode4(M3, a, nodeRef, key[depth + mismatchPos],
                                makeLeaf(value))
            ELSE
                LET d == depth + old.prefixLength
                    child == findChild(M, node, key[d])
                    n == AddrOf(node)
                IN  IF Deref(M, child) # NULL THEN
                        insert(M, Deref(M, child), child, key, d + 1, value)
                    ELSE IF old.type = NodeType4 THEN
                        insertNode4(M, n, nodeRef, key[d], makeLeaf(value))
                    ELSE IF old.type = NodeType16 THEN
                        insertNode16(M, n, nodeRef, key[d], makeLeaf(value))
                    ELSE IF old.type = NodeType48 THEN
                        insertNode48(M, n, nodeRef, key[d], makeLeaf(value))
                    ELSE
                        insertNode256(M, n, nodeRef, key[d], makeLeaf(value))

(***************************************************************************)
(* Erase.                                                                  *)
(***************************************************************************)
\* a concatenation that leaves out the edge byte between the two prefixes
concatPrefixes_NoEdgeByte(node, c) ==
    LET l1 == node.prefixLength
        l2 == IF l1 < maxPrefixLength
              THEN min(c.prefixLength, maxPrefixLength - l1) ELSE 0
        pre == IF l1 < maxPrefixLength
               THEN Memcpy(node.prefix, l1, c.prefix, 0, l2)
               ELSE node.prefix
    IN  [c EXCEPT
            !.prefix = Memcpy(c.prefix, 0, pre, 0, min(l1 + l2, maxPrefixLength)),
            !.prefixLength = c.prefixLength + node.prefixLength + 1]

\* a collapse that adds the lengths but leaves the child's prefix bytes alone
concatPrefixes_LengthOnly(node, c) ==
    [c EXCEPT !.prefixLength = c.prefixLength + node.prefixLength + 1]

\* "concatenate prefixes" of eraseNode4: the remaining child c of the one-way
\* node, with the node's prefix, its edge byte key[0] and c's prefix stored
concatPrefixes(node, c) ==
    LET l1a == node.prefixLength
        pre1 == IF l1a < maxPrefixLength
                THEN [node.prefix EXCEPT ![l1a] = node.key[0]]
                ELSE node.prefix
        l1b == IF l1a < maxPrefixLength THEN l1a + 1 ELSE l1a
        l2 == min(c.prefixLength, maxPrefixLength - l1b)
        pre2 == IF l1b < maxPrefixLength
                THEN Memcpy(pre1, l1b, c.prefix, 0, l2)
                ELSE pre1
        l1c == IF l1b < maxPrefixLength THEN l1b + l2 ELSE l1b
    IN  [c EXCEPT
            !.prefix = Memcpy(c.prefix, 0, pre2, 0, min(l1c, maxPrefixLength)),
            !.prefixLength = c.prefixLength + node.prefixLength + 1]

\* an eraseNode4 that keeps the node when one child is left
eraseNode4_NoCollapse(M, a, nodeRef, leafPlace) ==
    LET node == M.heap[a]
        pos == leafPlace[3]
    IN  [M EXCEPT !.heap[a] =
            [node EXCEPT
                !.key = Memcpy(node.key, pos, node.key, pos + 1,
                               node.count - pos - 1),
                !.child = Memcpy(node.child, pos, node.child, pos + 1,
                                 node.count - pos - 1),
                !.count = node.count - 1]]

\* an eraseNode4 that moves the entries down and leaves count as it is
eraseNode4_KeepCount(M, a, nodeRef, leafPlace) ==
    LET node == M.heap[a]
        pos == leafPlace[3]
    IN  [M EXCEPT !.heap[a] =
            [node EXCEPT
                !.key = Memcpy(node.key, pos, node.key, pos + 1,
                               node.count - pos - 1),
                !.child = Memcpy(node.child, pos, node.child, pos + 1,
                                 node.count - pos - 1)]]

eraseNode4(M, a, nodeRef, leafPlace) ==
    LET node == M.heap[a]
        pos == leafPlace[3]
        shifted ==
            [node EXCEPT
                !.key = Memcpy(node.key, pos, node.key, pos + 1,
                               node.count - pos - 1),
                !.child = Memcpy(node.child, pos, node.child, pos + 1,
                                 node.count - pos - 1),
                !.count = node.count - 1]
    IN  IF shifted.count = 1 THEN
            \* get rid of one-way node
            LET child == shifted.child[0]
            IN  IF ~isLeaf(child) THEN
                    LET M1 == [M EXCEPT !.heap[AddrOf(child)] =
                                concatPrefixes(shifted, At(M, child))]
                    IN  Delete(Store(M1, nodeRef, child), a)
                ELSE Delete(Store(M, nodeRef, child), a)
        ELSE [M EXCEPT !.heap[a] = shifted]

\* an erase that shrinks as soon as the children fit a Node4
eraseNode16_ShrinkAt4(M, a, nodeRef, leafPlace) ==
    LET node == M.heap[a]
        pos == leafPlace[3]
        shifted ==
            [node EXCEPT
                !.key = Memcpy(node.key, pos, node.key, pos + 1,
                               node.count - pos - 1),
                !.child = Memcpy(node.child, pos, node.child, pos + 1,
                                 node.count - pos - 1),
                !.count = node.count - 1]
    IN  IF shifted.count = 4 THEN
            \* shrink to Node4
            LET a2 == New(M)
                newNode ==
                    [copyPrefix(shifted, [Node4 EXCEPT !.count = shifted.count])
                     EXCEPT
                        !.key = [i \in 0..3 |-> flipSign(shifted.key[i])],
                        !.child = Memcpy(Node4.child, 0, shifted.child, 0, 4)]
                M1 == Store([M EXCEPT !.heap[a2] = newNode], nodeRef, PtrOf(a2))
            IN  Delete(M1, a)
        ELSE [M EXCEPT !.heap[a] = shifted]
\* an eraseNode16 that shrinks one erase late, at count 2
eraseNode16_ShrinkAt2(M, a, nodeRef, leafPlace) ==
    LET node == M.heap[a]
        pos == leafPlace[3]
        shifted ==
            [node EXCEPT
                !.key = Memcpy(node.key, pos, node.key, pos + 1,
                               node.count - pos - 1),
                !.child = Memcpy(node.child, pos, node.child, pos + 1,
                                 node.count - pos - 1),
                !.count = node.count - 1]
    IN  IF shifted.count = 2 THEN
            \* shrink to Node4
            LET a2 == New(M)
                newNode ==
                    [copyPrefix(shifted, [Node4 EXCEPT !.count = shifted.count])
                     EXCEPT
                        !.key = [i \in 0..3 |-> flipSign(shifted.key[i])],
                        !.child = Memcpy(Node4.child, 0, shifted.child, 0, 4)]
                M1 == Store([M EXCEPT !.heap[a2] = newNode], nodeRef, PtrOf(a2))
            IN  Delete(M1, a)
        ELSE [M EXCEPT !.heap[a] = shifted]

eraseNode16(M, a, nodeRef, leafPlace) ==
    LET node == M.heap[a]
        pos == leafPlace[3]
        shifted ==
            [node EXCEPT
                !.key = Memcpy(node.key, pos, node.key, pos + 1,
                               node.count - pos - 1),
                !.child = Memcpy(node.child, pos, node.child, pos + 1,
                                 node.count - pos - 1),
                !.count = node.count - 1]
    IN  IF shifted.count = 3 THEN
            \* shrink to Node4
            LET a2 == New(M)
                newNode ==
                    [copyPrefix(shifted, [Node4 EXCEPT !.count = shifted.count])
                     EXCEPT
                        !.key = [i \in 0..3 |-> flipSign(shifted.key[i])],
                        !.child = Memcpy(Node4.child, 0, shifted.child, 0, 4)]
                M1 == Store([M EXCEPT !.heap[a2] = newNode], nodeRef, PtrOf(a2))
            IN  Delete(M1, a)
        ELSE [M EXCEPT !.heap[a] = shifted]

\* a shrink loop that stores the bytes as they are, not sign-flipped
ShrinkTo16_NoFlip(node, fresh) ==
    LET present == {b \in Byte : node.childIndex[b] # emptyMarker}
        rank(b) == Cardinality({x \in present : x < b})
        at(i) == CHOOSE b \in present : rank(b) = i
        n == Cardinality(present)
    IN  [fresh EXCEPT
            !.key = [i \in 0..15 |-> IF i < n THEN at(i) ELSE fresh.key[i]],
            !.child = [i \in 0..15 |->
                        IF i < n THEN node.child[node.childIndex[at(i)]]
                        ELSE fresh.child[i]],
            !.count = fresh.count + n]

\* the N16 the shrink loop of eraseNode48 fills: the present bytes in
\* ascending order, appended one by one
ShrinkTo16(node, fresh) ==
    LET present == {b \in Byte : node.childIndex[b] # emptyMarker}
        rank(b) == Cardinality({x \in present : x < b})
        at(i) == CHOOSE b \in present : rank(b) = i
        n == Cardinality(present)
    IN  [fresh EXCEPT
            !.key = [i \in 0..15 |->
                        IF i < n THEN flipSign(at(i)) ELSE fresh.key[i]],
            !.child = [i \in 0..15 |->
                        IF i < n THEN node.child[node.childIndex[at(i)]]
                        ELSE fresh.child[i]],
            !.count = fresh.count + n]

\* an eraseNode48 that clears the index entry but leaves the child slot set
eraseNode48_KeepSlot(M, a, nodeRef, keyByte) ==
    LET node == M.heap[a]
    IN  [M EXCEPT !.heap[a] =
            [node EXCEPT
                !.childIndex[keyByte] = emptyMarker,
                !.count = node.count - 1]]

\* an eraseNode48 that shrinks as soon as an N16 can hold the children
eraseNode48_ShrinkAt16(M, a, nodeRef, keyByte) ==
    LET node == M.heap[a]
        cleared ==
            [node EXCEPT
                !.child[node.childIndex[keyByte]] = NULL,
                !.childIndex[keyByte] = emptyMarker,
                !.count = node.count - 1]
    IN  IF cleared.count = 16 THEN
            LET a2 == New(M)
                newNode == ShrinkTo16(cleared, copyPrefix(cleared, Node16))
                M1 == Store([M EXCEPT !.heap[a2] = newNode], nodeRef, PtrOf(a2))
            IN  Delete(M1, a)
        ELSE [M EXCEPT !.heap[a] = cleared]

eraseNode48(M, a, nodeRef, keyByte) ==
    LET node == M.heap[a]
        cleared ==
            [node EXCEPT
                !.child[node.childIndex[keyByte]] = NULL,
                !.childIndex[keyByte] = emptyMarker,
                !.count = node.count - 1]
    IN  IF cleared.count = 12 THEN
            \* shrink to Node16
            LET a2 == New(M)
                newNode == ShrinkTo16(cleared, copyPrefix(cleared, Node16))
                M1 == Store([M EXCEPT !.heap[a2] = newNode], nodeRef, PtrOf(a2))
            IN  Delete(M1, a)
        ELSE [M EXCEPT !.heap[a] = cleared]

\* the N48 the shrink loop of eraseNode256 fills
ShrinkTo48(node, fresh) ==
    LET present == {b \in Byte : node.child[b] # NULL}
        rank(b) == Cardinality({x \in present : x < b})
        at(i) == CHOOSE b \in present : rank(b) = i
        n == Cardinality(present)
    IN  [fresh EXCEPT
            !.childIndex = [b \in Byte |->
                        IF b \in present THEN fresh.count + rank(b)
                        ELSE fresh.childIndex[b]],
            !.child = [i \in 0..47 |->
                        IF i < n THEN node.child[at(i)] ELSE fresh.child[i]],
            !.count = fresh.count + n]

\* an eraseNode256 that shrinks as soon as an N48 can hold the children
eraseNode256_ShrinkAt48(M, a, nodeRef, keyByte) ==
    LET node == M.heap[a]
        cleared ==
            [node EXCEPT !.child[keyByte] = NULL, !.count = node.count - 1]
    IN  IF cleared.count = 48 THEN
            LET a2 == New(M)
                newNode == ShrinkTo48(cleared, copyPrefix(cleared, Node48))
                M1 == Store([M EXCEPT !.heap[a2] = newNode], nodeRef, PtrOf(a2))
            IN  Delete(M1, a)
        ELSE [M EXCEPT !.heap[a] = cleared]

eraseNode256(M, a, nodeRef, keyByte) ==
    LET node == M.heap[a]
        cleared ==
            [node EXCEPT !.child[keyByte] = NULL, !.count = node.count - 1]
    IN  IF cleared.count = 37 THEN
            \* shrink to Node48
            LET a2 == New(M)
                newNode == ShrinkTo48(cleared, copyPrefix(cleared, Node48))
                M1 == Store([M EXCEPT !.heap[a2] = newNode], nodeRef, PtrOf(a2))
            IN  Delete(M1, a)
        ELSE [M EXCEPT !.heap[a] = cleared]

RECURSIVE erase(_, _, _, _, _)
erase(M, node, nodeRef, key, depth) ==
    IF node = NULL THEN M
    ELSE IF isLeaf(node) THEN
        \* make sure we have the right leaf
        IF leafMatches(node, key, depth) THEN Store(M, nodeRef, NULL) ELSE M
    ELSE
        LET n == At(M, node)
            a == AddrOf(node)
        IN  IF n.prefixLength # 0
               /\ prefixMismatch(M, node, key, depth) # n.prefixLength
            THEN M
            ELSE
                LET d == depth + n.prefixLength
                    child == findChild(M, node, key[d])
                IN  IF isLeaf(Deref(M, child))
                       /\ leafMatches(Deref(M, child), key, d)
                    THEN
                        \* leaf found, delete it in inner node
                        IF n.type = NodeType4 THEN
                            eraseNode4(M, a, nodeRef, child)
                        ELSE IF n.type = NodeType16 THEN
                            eraseNode16(M, a, nodeRef, child)
                        ELSE IF n.type = NodeType48 THEN
                            eraseNode48(M, a, nodeRef, key[d])
                        ELSE
                            eraseNode256(M, a, nodeRef, key[d])
                    ELSE erase(M, Deref(M, child), child, key, d + 1)

(***************************************************************************)
(* The driver: an empty tree, then inserts of keys not yet present and     *)
(* erases, each with key = loadKey(tid) and the tid as the value.          *)
(***************************************************************************)
\* the values of maxPrefixLength the tree is built with: the header's 9, and
\* a cap below the key length, so that compressed paths outgrow the header
PrefixCaps == {2, HeaderPrefixLength}

\* tids in the 63-bit range, written as hex digits
Universe ==
    { Hex(<<0, 0, 0, 1, 0, 0, 0, 1>>),
      Hex(<<0, 0, 0, 2, 0, 0, 0, 1>>),
      Hex(<<0, 0, 0, 128, 0, 0, 0, 1>>),
      Hex(<<0, 0, 0, 255, 0, 0, 0, 1>>),
      Hex(<<0, 0, 0, 127, 0, 0, 0, 1>>),
      Hex(<<0, 0, 0, 1, 0, 0, 0, 2>>),
      Hex(<<1, 0, 0, 0, 0, 0, 0, 1>>) }

Mem == [tree |-> tree, heap |-> heap, nullNode |-> nullNode]

\* the key a tid is stored under once it went through makeLeaf
StoredKey(tid) == loadKey(getLeafValue(makeLeaf(tid)))

\* loadKey(keys[i], key); insert(tree, &tree, key, 0, keys[i], 8)
InsertKey(M, tid) == insert(M, M.tree, TreeRef, loadKey(tid), 0, tid)

\* loadKey(keys[i], key); erase(tree, &tree, key, 8, 0, 8)
EraseKey(M, tid) == erase(M, M.tree, TreeRef, loadKey(tid), 0)

\* the caller's contract for insert: no leaf of the tree has this key
Insertable(tid) ==
    /\ tid \notin keys
    /\ \A t \in keys : StoredKey(t) # loadKey(tid)

Init ==
    /\ tree = NULL
    /\ heap = [a \in 1..MaxNodes |-> FreeCell]
    /\ nullNode = NULL
    /\ maxPrefixLength \in PrefixCaps
    /\ keys = {}

\* the caller inserts a tid whose key no leaf of the tree has
Insert(tid) ==
    /\ Cardinality(keys) < MaxKeys
    /\ Insertable(tid)
    /\ LET M == InsertKey(Mem, tid)
       IN  /\ tree' = M.tree
           /\ heap' = M.heap
           /\ nullNode' = M.nullNode
    /\ keys' = keys \cup {tid}
    /\ UNCHANGED maxPrefixLength

\* the caller erases a tid, in the tree or not
Erase(tid) ==
    /\ LET M == EraseKey(Mem, tid)
       IN  /\ tree' = M.tree
           /\ heap' = M.heap
           /\ nullNode' = M.nullNode
    /\ keys' = keys \ {tid}
    /\ UNCHANGED maxPrefixLength

Next ==
    \/ \E tid \in Universe : Insert(tid)
    \/ \E tid \in Universe : Erase(tid)

Spec == Init /\ [][Next]_vars

(***************************************************************************)
(* What a caller observes of the tree.                                     *)
(***************************************************************************)
\* lookup(tree, key, 8, 0, 8) with key = loadKey(tid)
Lookup(M, tid) == lookup(M, M.tree, loadKey(tid), 0)

\* the numerically least and greatest of a non-empty set of tids
Least(S) == CHOOSE x \in S : \A y \in S : x = y \/ WordLess(x, y)
Greatest(S) == CHOOSE x \in S : \A y \in S : x = y \/ WordLess(y, x)

\* the allocated heap cells
Allocated(M) == {a \in 1..MaxNodes : M.heap[a].type # Freed}

\* the child map of a node record: its children in the order of the key bytes
\* as the node keeps them (array order in N4 and N16, byte order in N48 and
\* N256), each as <<key byte, child>>
ChildSeq(n) ==
    IF n.type = NodeType4 THEN
        [i \in 1..n.count |-> <<n.key[i - 1], n.child[i - 1]>>]
    ELSE IF n.type = NodeType16 THEN
        [i \in 1..n.count |-> <<flipSign(n.key[i - 1]), n.child[i - 1]>>]
    ELSE
        LET present == IF n.type = NodeType48
                       THEN {b \in Byte : n.childIndex[b] # emptyMarker}
                       ELSE {b \in Byte : n.child[b] # NULL}
            rank(b) == Cardinality({x \in present : x < b})
            at(i) == CHOOSE b \in present : rank(b) = i - 1
        IN  [i \in 1..Cardinality(present) |->
                <<at(i), IF n.type = NodeType48
                         THEN n.child[n.childIndex[at(i)]]
                         ELSE n.child[at(i)]>>]

\* the inner nodes (heap cells) of the subtree at a pointer
RECURSIVE Nodes(_, _)
Nodes(M, node) ==
    IF node = NULL \/ isLeaf(node) THEN {}
    ELSE LET cs == ChildSeq(At(M, node))
         IN  {AddrOf(node)}
                \cup UNION {Nodes(M, cs[i][2]) : i \in 1..Len(cs)}

\* the tids of the leaves of the subtree at a pointer, children taken in the
\* order the node keeps them
RECURSIVE InOrder(_, _)
RECURSIVE InOrderFrom(_, _, _)
InOrder(M, node) ==
    IF node = NULL THEN <<>>
    ELSE IF isLeaf(node) THEN <<getLeafValue(node)>>
    ELSE InOrderFrom(M, ChildSeq(At(M, node)), 1)

InOrderFrom(M, cs, i) ==
    IF i > Len(cs) THEN <<>>
    ELSE InOrder(M, cs[i][2]) \o InOrderFrom(M, cs, i + 1)

(***************************************************************************)
(* C1. After inserting any duplicate-free set of 63-bit tids in any order, *)
(* lookup of every inserted key returns the leaf holding its value.        *)
(***************************************************************************)
C1_LookupFindsInserted ==
    \A k \in keys :
        LET r == Lookup(Mem, k)
        IN  r # NULL /\ isLeaf(r) /\ getLeafValue(r) = k

C1_Witness ==
    /\ Cardinality(keys) >= 4
    /\ tree # NULL /\ ~isLeaf(tree)
    /\ At(Mem, tree).prefixLength > 0
    /\ \E b \in Byte : LET c == Deref(Mem, findChild(Mem, tree, b))
                       IN  c # NULL /\ ~isLeaf(c)
    /\ C1_LookupFindsInserted

(***************************************************************************)
(* C2. lookup of a key that is not in the tree returns null, also when a   *)
(* prefix check was skipped (prefixLength >= maxPrefixLength) and the      *)
(* descent ends at a leaf with depth = keyLength.                          *)
(***************************************************************************)
C2_LookupRejectsAbsent ==
    \A k \in Universe \ keys : Lookup(Mem, k) = NULL

(***************************************************************************)
(* C3. In any reachable tree, inserting an absent key k and then erasing k *)
(* leaves a tree where lookup(k) is null, every key present before is      *)
(* still found with its value, and no other key becomes found.             *)
(***************************************************************************)
C3_InsertEraseRoundTrip ==
    \A k \in Universe :
        Insertable(k) =>
            LET M2 == EraseKey(InsertKey(Mem, k), k)
            IN  /\ Lookup(M2, k) = NULL
                /\ \A j \in keys : Lookup(M2, j) = makeLeaf(j)
                /\ \A j \in Universe \ (keys \cup {k}) :
                       Lookup(Mem, j) = NULL => Lookup(M2, j) = NULL

(***************************************************************************)
(* C4. erase of a key that is not in the tree changes nothing: the root    *)
(* slot, every node (variant, count, prefixLength, prefix, child map) and  *)
(* nullNode are as before, wherever the descent stops.                     *)
(***************************************************************************)
C4_EraseAbsentNoOp ==
    \A k \in Universe \ keys : EraseKey(Mem, k) = Mem

\* where erase of the absent key k stops in the tree
RECURSIVE EraseStop(_, _, _, _)
EraseStop(M, node, key, depth) ==
    IF node = NULL THEN "absent child"
    ELSE IF isLeaf(node) THEN
        IF leafMatches(node, key, depth) THEN "found" ELSE "other leaf"
    ELSE
        LET n == At(M, node)
        IN  IF n.prefixLength # 0
               /\ prefixMismatch(M, node, key, depth) # n.prefixLength
            THEN "prefix mismatch"
            ELSE LET d == depth + n.prefixLength
                     c == Deref(M, findChild(M, node, key[d]))
                 IN  IF isLeaf(c) /\ leafMatches(c, key, d) THEN "found"
                     ELSE EraseStop(M, c, key, d + 1)

C4_Witness ==
    /\ C4_EraseAbsentNoOp
    /\ \A how \in {"absent child", "other leaf", "prefix mismatch"} :
           \E k \in Universe \ keys :
               EraseStop(Mem, tree, loadKey(k), 0) = how

(***************************************************************************)
(* C5. In a non-empty tree minimum(root) is the leaf of the numerically    *)
(* least key in the tree and maximum(root) the leaf of the greatest.       *)
(***************************************************************************)
C5_MinMax ==
    keys # {} =>
        /\ minimum(Mem, tree) = makeLeaf(Least(keys))
        /\ maximum(Mem, tree) = makeLeaf(Greatest(keys))

C5_Witness ==
    /\ Cardinality(keys) >= 4
    /\ tree # NULL /\ ~isLeaf(tree)
    /\ \E a \in Allocated(Mem) : heap[a].type = NodeType16
    /\ minimum(Mem, tree) = makeLeaf(Least(keys))
    /\ maximum(Mem, tree) = makeLeaf(Greatest(keys))
    /\ minimum(Mem, tree) # maximum(Mem, tree)

(***************************************************************************)
(* C6. Any two orders of inserting the same duplicate-free key set give    *)
(* trees with the same observable behaviour: the same lookup result for    *)
(* every key, the same minimum and maximum, the same in-order traversal.   *)
(* Every reachable tree is compared with the tree built by inserting its   *)
(* keys in ascending order into an empty tree.                             *)
(***************************************************************************)
EmptyMem ==
    [tree |-> NULL, heap |-> [a \in 1..MaxNodes |-> FreeCell], nullNode |-> NULL]

RECURSIVE Build(_)
Build(S) ==
    IF S = {} THEN EmptyMem
    ELSE LET g == Greatest(S) IN InsertKey(Build(S \ {g}), g)

Observe(M) ==
    [lookup |-> [k \in Universe |-> Lookup(M, k)],
     min |-> minimum(M, M.tree),
     max |-> maximum(M, M.tree),
     order |-> InOrder(M, M.tree)]

C6_PermutationInvariance == Observe(Mem) = Observe(Build(keys))

\* a tree with nested inner nodes that is not the one ascending order builds
C6_Witness ==
    /\ Cardinality(keys) >= 4
    /\ Cardinality(Nodes(Mem, tree)) >= 2
    /\ Mem # Build(keys)
    /\ C6_PermutationInvariance

(***************************************************************************)
(* The driver on the full 64-bit range: main() reads uint64_t keys from a  *)
(* file, inserts each with itself as the value, then looks each up and     *)
(* asserts isLeaf(leaf) && getLeafValue(leaf) == keys[i].                  *)
(***************************************************************************)
UniverseFull ==
    { Hex(<<0, 0, 0, 0, 0, 0, 0, 1>>),
      Hex(<<0, 0, 0, 0, 0, 0, 0, 2>>),
      Hex(<<1, 0, 0, 0, 0, 0, 0, 0>>),
      Hex(<<127, 255, 255, 255, 255, 255, 255, 255>>),
      Hex(<<128, 0, 0, 0, 0, 0, 0, 0>>),
      Hex(<<128, 0, 0, 0, 0, 0, 0, 1>>),
      Hex(<<255, 255, 255, 255, 255, 255, 255, 255>>) }

InitFull ==
    /\ tree = NULL
    /\ heap = [a \in 1..MaxNodes |-> FreeCell]
    /\ nullNode = NULL
    /\ maxPrefixLength = HeaderPrefixLength
    /\ keys = {}

NextFull == \E tid \in UniverseFull : Insert(tid)

SpecFull == InitFull /\ [][NextFull]_vars

(***************************************************************************)
(* C7. For distinct keys of the full 64-bit range, each inserted with the  *)
(* integer as its value and its big-endian bytes as the key, lookup of     *)
(* each inserted key returns a leaf whose value is that integer.           *)
(***************************************************************************)
C7_DriverAssert ==
    \A k \in keys :
        LET leaf == Lookup(Mem, k)
        IN  isLeaf(leaf) /\ getLeafValue(leaf) = k

(***************************************************************************)
(* C8. On the empty tree lookup of any key returns null, minimum and       *)
(* maximum return null, and erase of any key leaves the root null.         *)
(***************************************************************************)
C8_EmptyTree ==
    tree = NULL =>
        /\ \A k \in Universe : Lookup(Mem, k) = NULL
        /\ minimum(Mem, tree) = NULL
        /\ maximum(Mem, tree) = NULL
        /\ \A k \in Universe : EraseKey(Mem, k).tree = NULL

C8_Witness ==
    /\ tree = NULL
    /\ keys = {}
    /\ \A k \in Universe : Lookup(Mem, k) = NULL /\ EraseKey(Mem, k) = Mem
    /\ minimum(Mem, tree) = NULL /\ maximum(Mem, tree) = NULL

(***************************************************************************)
(* C9. After every insert and erase every inner node of the tree has       *)
(* count >= 2 and at least two children: no one-way inner node is left.    *)
(***************************************************************************)
C9_NoOneWayNode ==
    \A a \in Nodes(Mem, tree) :
        /\ heap[a].count >= 2
        /\ Len(ChildSeq(heap[a])) >= 2

\* a tree in which some erase empties an N4 down to one child, so that the
\* N4 is replaced by that child, and inner nodes remain
C9_Witness ==
    /\ C9_NoOneWayNode
    /\ \E k \in keys :
           LET M2 == EraseKey(Mem, k)
           IN  /\ Cardinality(Nodes(M2, M2.tree)) = Cardinality(Nodes(Mem, tree)) - 1
               /\ M2.tree # NULL /\ ~isLeaf(M2.tree)
               /\ \A a \in Nodes(M2, M2.tree) : M2.heap[a].count >= 2

(***************************************************************************)
(* C10. After every insert and erase, the stored prefix bytes              *)
(* prefix[0 .. min(prefixLength, maxPrefixLength)) of every inner node are *)
(* the bytes of the key of minimum(node) from the node's depth on.         *)
(***************************************************************************)
RECURSIVE PrefixOK(_, _, _)
PrefixOK(M, node, depth) ==
    IF node = NULL \/ isLeaf(node) THEN TRUE
    ELSE LET n == At(M, node)
             minKey == loadKey(getLeafValue(minimum(M, node)))
             cs == ChildSeq(n)
         IN  /\ \A i \in 0..(min(n.prefixLength, maxPrefixLength) - 1) :
                    n.prefix[i] = minKey[depth + i]
             /\ \A i \in 1..Len(cs) :
                    PrefixOK(M, cs[i][2], depth + n.prefixLength + 1)

C10_StoredPrefix == PrefixOK(Mem, tree, 0)

\* a tree in which a compressed path outgrew the header and an inner node
\* with a prefix hangs under another inner node
C10_Witness ==
    /\ C10_StoredPrefix
    /\ \E a \in Nodes(Mem, tree) : heap[a].prefixLength > maxPrefixLength
    /\ tree # NULL /\ ~isLeaf(tree)
    /\ \E a \in Nodes(Mem, tree) :
           /\ PtrOf(a) # tree
           /\ heap[a].prefixLength > 0
           /\ heap[a].prefixLength <= maxPrefixLength

(***************************************************************************)
(* The driver on a wide fan: keys that share their first six bytes and     *)
(* differ in byte 6, inserted in a fixed order that mixes bytes below and  *)
(* above 0x80 and erased from either end of that order, so that one node   *)
(* goes through every variant in both directions; a twin key shares byte 6 *)
(* with one fan key and differs from it in byte 7, so that the node also   *)
(* has an inner node among its children.                                   *)
(***************************************************************************)
\* number of keys of the fan
FanKeys == 50
\* number of keys at the front of the order that are also erased from the front
FanFront == 1
\* largest fan a key is erased from at the front
FanFrontSize == 20

\* byte 6 of the i-th key of the order: the first sixteen in an order that
\* mixes bytes on both sides of 0x80, the later ones ascending above them
FanByte(i) == IF i < 16 THEN (i * 77) % 160 ELSE 160 + (i - 16)

FanTid(i) == Hex(<<17, 34, 51, 68, 85, 102, FanByte(i), 1>>)

TwinTid == Hex(<<17, 34, 51, 68, 85, 102, FanByte(2), 2>>)

\* the fan keys in the tree, by their place in the order of insertion
FanIdx == {i \in 0..(FanKeys - 1) : FanTid(i) \in keys}

\* the place in the order of the key FanInsert inserts
FanNext == IF FanIdx = {} THEN 0 ELSE SetMax(FanIdx) + 1

\* the caller inserts a tid of the fan that is not in the tree
InsertFan(tid) ==
    /\ tid \notin keys
    /\ LET M == InsertKey(Mem, tid)
       IN  /\ tree' = M.tree
           /\ heap' = M.heap
           /\ nullNode' = M.nullNode
    /\ keys' = keys \cup {tid}
    /\ UNCHANGED maxPrefixLength

\* the caller erases a tid of the fan that is in the tree
EraseFan(tid) ==
    /\ tid \in keys
    /\ LET M == EraseKey(Mem, tid)
       IN  /\ tree' = M.tree
           /\ heap' = M.heap
           /\ nullNode' = M.nullNode
    /\ keys' = keys \ {tid}
    /\ UNCHANGED maxPrefixLength

\* the tids the caller may insert next: the next key of the order while the
\* front of the order is in the tree, a key erased from the front otherwise,
\* and the twin while the fan is small
FanInsertable ==
    {FanTid(i) : i \in {j \in {FanNext} :
                          j < FanKeys /\ (FanIdx # {} => SetMin(FanIdx) = 0)}}
    \cup {FanTid(i - 1) : i \in {j \in FanIdx : j = SetMin(FanIdx) /\ j > 0}}
    \cup {t \in {TwinTid} : FanIdx = 0..2}

\* the tids the caller may erase next: the last key of the order while the
\* front is in the tree, the first key of a fan that is small, and the twin
FanErasable ==
    {FanTid(i) : i \in {j \in FanIdx : j = SetMax(FanIdx) /\ SetMin(FanIdx) = 0}}
    \cup {FanTid(i) : i \in {j \in FanIdx :
                                /\ j = SetMin(FanIdx)
                                /\ j < FanFront
                                /\ Cardinality(FanIdx) <= FanFrontSize}}
    \cup {t \in {TwinTid} : FanIdx = 0..2}

NextFan ==
    \/ \E tid \in FanInsertable : InsertFan(tid)
    \/ \E tid \in FanErasable : EraseFan(tid)

SpecFan == Init /\ [][NextFan]_vars

(***************************************************************************)
(* C1 on the fan: every key in the tree is found, in every variant.        *)
(***************************************************************************)
FanLookupFindsInserted ==
    \A k \in keys : Lookup(Mem, k) = makeLeaf(k)

(***************************************************************************)
(* C11. After every insert and erase the count of every inner node equals  *)
(* the number of non-null entries of its children array (children[4],      *)
(* children[16], children[48], children[256]).                             *)
(***************************************************************************)
\* the number of non-null entries of the children array of a node record
ArrayCount(n) == Cardinality({i \in DOMAIN n.child : n.child[i] # NULL})

\* the bytes findChild finds a child for
MappedBytes(M, node) ==
    {b \in Byte : Deref(M, findChild(M, node, b)) # NULL}

C11_CountIsArrayCount ==
    \A a \in Nodes(Mem, tree) : heap[a].count = ArrayCount(heap[a])

(***************************************************************************)
(* C11, amended. The count of every inner node equals the number of bytes  *)
(* findChild finds a child for; these children are the first count entries *)
(* of children[] in N4 and N16, all non-null, and the non-null entries of   *)
(* children[] in N48 and N256.  Entries of an N4 or N16 at count and above  *)
(* may hold what a shift left behind.                                      *)
(***************************************************************************)
C11_CountIsChildMap ==
    \A a \in Nodes(Mem, tree) :
        LET n == heap[a]
        IN  /\ n.count = Cardinality(MappedBytes(Mem, PtrOf(a)))
            /\ n.type \in {NodeType4, NodeType16} =>
                   \A i \in 0..(n.count - 1) : n.child[i] # NULL
            /\ n.type \in {NodeType48, NodeType256} => n.count = ArrayCount(n)

\* an N48 with a freed slot below a used one, over an N4
C11_Witness ==
    /\ C11_CountIsChildMap
    /\ tree # NULL /\ ~isLeaf(tree)
    /\ At(Mem, tree).type = NodeType48
    /\ \E i, j \in 0..47 :
           /\ i < j
           /\ At(Mem, tree).child[i] = NULL
           /\ At(Mem, tree).child[j] # NULL
    /\ \E a \in Nodes(Mem, tree) : heap[a].type = NodeType4

(***************************************************************************)
(* C12. After every insert and erase every N4 has key[0..count) strictly   *)
(* ascending as unsigned bytes and every N16 has key[0..count), the        *)
(* sign-flipped bytes it stores, strictly ascending as signed bytes.       *)
(***************************************************************************)
C12_KeysSorted ==
    \A a \in Nodes(Mem, tree) :
        LET n == heap[a]
        IN  /\ n.type = NodeType4 =>
                \A i, j \in 0..(n.count - 1) : i < j => n.key[i] < n.key[j]
            /\ n.type = NodeType16 =>
                \A i, j \in 0..(n.count - 1) :
                    i < j => Signed(n.key[i]) < Signed(n.key[j])

\* an N16 that the shrink of an N48 has just built (nothing was ever stored
\* behind its twelve entries), with bytes on both sides of 0x80
C12_Witness ==
    /\ C12_KeysSorted
    /\ tree # NULL /\ ~isLeaf(tree)
    /\ LET n == At(Mem, tree)
       IN  /\ n.type = NodeType16
           /\ n.count = 12
           /\ n.child[12] = NULL
           /\ \E i, j \in 0..11 : n.key[i] < 128 /\ n.key[j] >= 128
    /\ FanTid(0) \notin keys
    /\ FanTid(12) \in keys

(***************************************************************************)
(* C13. After every insert and erase, in every N48 each byte b with        *)
(* childIndex[b] # 48 points to a non-null slot of child[48], and every    *)
(* non-null slot of child[48] is referenced by exactly one childIndex      *)
(* entry.                                                                  *)
(***************************************************************************)
Node48OK(n) ==
    /\ \A b \in Byte :
           n.childIndex[b] # emptyMarker =>
               /\ n.childIndex[b] \in 0..47
               /\ n.child[n.childIndex[b]] # NULL
    /\ \A i \in 0..47 :
           n.child[i] # NULL =>
               Cardinality({b \in Byte : n.childIndex[b] = i}) = 1

C13_Node48Bijection ==
    \A a \in Nodes(Mem, tree) : heap[a].type = NodeType48 => Node48OK(heap[a])

\* an N48 with a freed slot below the used ones, which the next insert of
\* the caller takes again
C13_Witness ==
    /\ C13_Node48Bijection
    /\ tree # NULL /\ ~isLeaf(tree)
    /\ LET n == At(Mem, tree)
       IN  /\ n.type = NodeType48
           /\ n.child[0] = NULL
           /\ n.child[n.count] # NULL
           /\ \E tid \in FanInsertable :
                  LET M2 == InsertKey(Mem, tid)
                      n2 == At(M2, M2.tree)
                  IN  /\ n2.type = NodeType48
                      /\ n2.child[0] = makeLeaf(tid)
                      /\ Node48OK(n2)

(***************************************************************************)
(* C14. In every reachable tree, for every key of the key length, lookup   *)
(* and lookupPessimistic return the same result: the same leaf or both     *)
(* null, also when the tree has nodes with prefixLength >= maxPrefixLength. *)
(***************************************************************************)
C14_LookupsAgree ==
    \A k \in Universe :
        lookup(Mem, tree, loadKey(k), 0) = lookupPessimistic(Mem, tree, loadKey(k), 0)

(***************************************************************************)
(* The node in the root slot before and after a step of the caller.        *)
(***************************************************************************)
MemNext == [tree |-> tree', heap |-> heap', nullNode |-> nullNode']

IsInner(p) == p # NULL /\ ~isLeaf(p)

\* the key byte a key selects a child of the node at p with (the node is at
\* depth 0)
EdgeByte(M, p, tid) == loadKey(tid)[At(M, p).prefixLength]

\* the child slot content the key selects in the node at p
EdgeChild(M, p, tid) == Deref(M, findChild(M, p, EdgeByte(M, p, tid)))

\* insert of tid adds a child to the node at p
AddsChild(M, p, tid) ==
    /\ prefixMismatch(M, p, loadKey(tid), 0) = At(M, p).prefixLength
    /\ EdgeChild(M, p, tid) = NULL

\* erase of tid removes a child of the node at p
RemovesChild(M, p, tid) ==
    /\ prefixMismatch(M, p, loadKey(tid), 0) = At(M, p).prefixLength
    /\ EdgeChild(M, p, tid) = makeLeaf(tid)

\* capacity of a variant, and the count an erase shrinks it at
Capacity(type) ==
    IF type = NodeType4 THEN 4
    ELSE IF type = NodeType16 THEN 16
    ELSE IF type = NodeType48 THEN 48 ELSE 256

ShrinkCount(type) ==
    IF type = NodeType16 THEN 3
    ELSE IF type = NodeType48 THEN 12
    ELSE IF type = NodeType256 THEN 37 ELSE 1

(***************************************************************************)
(* C15. The variant of the inner node in a slot changes only N4->N16,      *)
(* N16->N48, N48->N256, and exactly when a child is added to a node with   *)
(* count 4, 16, 48; and only N256->N48, N48->N16, N16->N4, and exactly     *)
(* when an erase makes the count 37, 12, 3; an N4 is replaced by its       *)
(* remaining child exactly when an erase makes its count 1.  Checked for   *)
(* the root slot at every step.                                            *)
(***************************************************************************)
RootTransition ==
    IsInner(tree) =>
        LET n == At(Mem, tree)
            added == keys' \ keys
            removed == keys \ keys'
            grows == /\ added # {}
                     /\ AddsChild(Mem, tree, CHOOSE k \in added : TRUE)
            drops == /\ removed # {}
                     /\ RemovesChild(Mem, tree, CHOOSE k \in removed : TRUE)
        IN  IF grows THEN
                /\ IsInner(tree')
                /\ At(MemNext, tree').count = n.count + 1
                /\ At(MemNext, tree').type =
                       IF n.count = Capacity(n.type) THEN n.type + 1 ELSE n.type
            ELSE IF drops /\ n.type = NodeType4 /\ n.count - 1 = 1 THEN
                /\ tree' \in {n.child[0], n.child[1]}
                /\ heap'[AddrOf(tree)].type = Freed
            ELSE IF drops THEN
                /\ IsInner(tree')
                /\ At(MemNext, tree').count = n.count - 1
                /\ At(MemNext, tree').type =
                       IF n.count - 1 = ShrinkCount(n.type)
                       THEN n.type - 1 ELSE n.type
            ELSE
                /\ IsInner(tree')
                /\ At(MemNext, tree').count = n.count
                /\ At(MemNext, tree').type = n.type

C15_VariantTransitions == [][RootTransition]_vars

\* an N256 that the caller's next erase shrinks, an N48 its next insert grows
C15_Witness ==
    /\ IsInner(tree)
    /\ \/ /\ At(Mem, tree).type = NodeType256
          /\ At(Mem, tree).count = 38
          /\ \E tid \in FanErasable :
                 LET M2 == EraseKey(Mem, tid)
                 IN  /\ At(M2, M2.tree).type = NodeType48
                     /\ At(M2, M2.tree).count = 37
       \/ /\ At(Mem, tree).type = NodeType48
          /\ At(Mem, tree).count = 48
          /\ \E tid \in FanInsertable :
                 LET M2 == InsertKey(Mem, tid)
                 IN  /\ At(M2, M2.tree).type = NodeType256
                     /\ At(M2, M2.tree).count = 49

(***************************************************************************)
(* The shrink scenario: as many keys as an N48 holds, which differ only in *)
(* byte 0, are inserted in a fixed order that ends with the greatest; then *)
(* keys are erased from either end of the others until as many are left as *)
(* an N48 shrinks at.  The greatest key is in the tree exactly while keys   *)
(* are erased.                                                             *)
(***************************************************************************)
ScenarioKeys == Capacity(NodeType48)

ScenarioLeft == ShrinkCount(NodeType48)

\* byte 0 of the i-th key inserted, i = 0 .. ScenarioKeys - 1
ScenarioByte(i) ==
    IF i = ScenarioKeys - 1 THEN ScenarioKeys
    ELSE ((i * 29) % (ScenarioKeys - 1)) + 1

ScenarioTid(i) == Hex(<<ScenarioByte(i), 0, 0, 0, 0, 0, 0, 0>>)

ScenarioSet == {ScenarioTid(i) : i \in 0..(ScenarioKeys - 1)}

ScenarioLast == ScenarioTid(ScenarioKeys - 1)

ScenarioInsert(tid) ==
    /\ ScenarioLast \notin keys
    /\ tid = ScenarioTid(Cardinality(keys))
    /\ LET M == InsertKey(Mem, tid)
       IN  /\ tree' = M.tree
           /\ heap' = M.heap
           /\ nullNode' = M.nullNode
    /\ keys' = keys \cup {tid}
    /\ UNCHANGED maxPrefixLength

\* the tids the caller may erase next: the least key and the greatest of
\* the keys before the last
ScenarioErasable ==
    {tid \in keys \ {ScenarioLast} :
        \/ \A y \in keys : y = tid \/ WordLess(tid, y)
        \/ \A y \in keys \ {ScenarioLast} : y = tid \/ WordLess(y, tid)}

ScenarioErase(tid) ==
    /\ ScenarioLast \in keys
    /\ Cardinality(keys) > ScenarioLeft
    /\ LET M == EraseKey(Mem, tid)
       IN  /\ tree' = M.tree
           /\ heap' = M.heap
           /\ nullNode' = M.nullNode
    /\ keys' = keys \ {tid}
    /\ UNCHANGED maxPrefixLength

NextScenario ==
    \/ \E tid \in ScenarioSet : ScenarioInsert(tid)
    \/ \E tid \in ScenarioErasable : ScenarioErase(tid)

SpecScenario == Init /\ [][NextScenario]_vars

\* count and the child map of the root agree with the keys left, and every
\* key left is found, every erased key is not
ScenarioConsistent ==
    /\ IsInner(tree)
    /\ At(Mem, tree).count = Cardinality(keys)
    /\ Cardinality(MappedBytes(Mem, tree)) = Cardinality(keys)
    /\ \A k \in keys : Lookup(Mem, k) = makeLeaf(k)
    /\ \A k \in ScenarioSet \ keys : Lookup(Mem, k) = NULL

(***************************************************************************)
(* C16. From the single N48 with count 48 built from 48 keys that differ   *)
(* only in byte 0, erasing 36 keys makes the node shrink N48->N16 and then *)
(* N16->N4; count is the number of remaining children after every erase   *)
(* and the 12 remaining keys are found.                                    *)
(***************************************************************************)
C16_ShrinksToNode4 ==
    ScenarioLast \in keys =>
        /\ ScenarioConsistent
        /\ Cardinality(keys) = ScenarioKeys => At(Mem, tree).type = NodeType48
        /\ Cardinality(keys) = ScenarioLeft => At(Mem, tree).type = NodeType4

(***************************************************************************)
(* C16, amended. Erasing 36 of the 48 keys makes the node shrink N48->N16  *)
(* at the 36th erase, when count becomes 12, and no further: it is an N48  *)
(* while more than 12 keys are left and an N16 with count 12 at the end.   *)
(* count is the number of remaining children after every erase and the     *)
(* remaining keys are found.                                               *)
(***************************************************************************)
C16_ShrinksToNode16 ==
    ScenarioLast \in keys =>
        /\ ScenarioConsistent
        /\ At(Mem, tree).type =
               IF Cardinality(keys) > ScenarioLeft
               THEN NodeType48 ELSE NodeType16

C16_Witness ==
    /\ C16_ShrinksToNode16
    /\ ScenarioLast \in keys
    /\ Cardinality(keys) = ScenarioLeft
    /\ At(Mem, tree).type = NodeType16
    /\ At(Mem, tree).count = ScenarioLeft

(***************************************************************************)
(* The variant of the inner node at every position of the tree, a position *)
(* being the key bytes that lead to the node, those of its compressed path *)
(* included.                                                               *)
(***************************************************************************)
RECURSIVE Variants(_, _, _)
Variants(M, node, depth) ==
    IF node = NULL \/ isLeaf(node) THEN {}
    ELSE LET n == At(M, node)
             d == depth + n.prefixLength
             k == loadKey(getLeafValue(minimum(M, node)))
             used == IF n.type \in {NodeType4, NodeType16}
                     THEN 0..(n.count - 1) ELSE DOMAIN n.child
             inner == {c \in {n.child[i] : i \in used} :
                          c # NULL /\ ~isLeaf(c)}
         IN  {<<[i \in 0..(d - 1) |-> k[i]], n.type>>}
                \cup UNION {Variants(M, c, d + 1) : c \in inner}

\* how many times a tid is inserted or erased in turn
Toggles == 4

\* the memories while a tid is erased and inserted in turn, n times
RECURSIVE ToggleRun(_, _, _, _)
ToggleRun(M, tid, present, n) ==
    IF n = 0 THEN <<M>>
    ELSE LET M1 == CHOOSE m \in {IF present THEN EraseKey(M, tid)
                                             ELSE InsertKey(M, tid)} : m = m
         IN  <<M>> \o ToggleRun(M1, tid, ~present, n - 1)

\* the variant at a position changes at most once along a run of memories
ChangesOnce(run) ==
    \A r \in {run} :
        \A vs \in {UNION {{<<i, v[1], v[2]>> :
                              v \in Variants(r[i], r[i].tree, 0)} :
                          i \in DOMAIN r}} :
            \A x, y, z \in vs :
                x[1] < y[1] /\ y[1] < z[1] /\ x[2] = y[2] /\ y[2] = z[2] =>
                    x[3] = y[3] \/ y[3] = z[3]

\* the tids of the fan
FanSet == {FanTid(i) : i \in 0..(FanKeys - 1)}

\* the insert of tid replaces the root node by one of the next variant
Grows(M, tid) ==
    /\ IsInner(M.tree)
    /\ LET M1 == InsertKey(M, tid)
       IN  IsInner(M1.tree) /\ At(M1, M1.tree).type > At(M, M.tree).type

\* the erase of tid replaces the root node by one of the previous variant
Shrinks(M, tid) ==
    /\ IsInner(M.tree)
    /\ LET M1 == EraseKey(M, tid)
       IN  IsInner(M1.tree) /\ At(M1, M1.tree).type < At(M, M.tree).type

(***************************************************************************)
(* C17. Hysteresis.  Right after an insert grows the root node to the next *)
(* variant, the erase of any one of its children leaves the variant as it  *)
(* is; right after an erase shrinks the root node, the insert of one new   *)
(* child leaves the variant as it is; and while one tid is erased and      *)
(* inserted in turn, the variant of the node at any position of the tree   *)
(* changes at most once.                                                   *)
(***************************************************************************)
C17_Hysteresis ==
    /\ \A tid \in FanInsertable \ keys :
           Grows(Mem, tid) =>
               LET M1 == InsertKey(Mem, tid)
               IN  \A k \in keys \cup {tid} :
                       RemovesChild(M1, M1.tree, k) =>
                           LET M2 == EraseKey(M1, k)
                           IN  /\ IsInner(M2.tree)
                               /\ At(M2, M2.tree).type = At(M1, M1.tree).type
    /\ \A tid \in keys :
           Shrinks(Mem, tid) =>
               LET M1 == EraseKey(Mem, tid)
               IN  \A new \in FanSet \ (keys \ {tid}) :
                       LET M2 == InsertKey(M1, new)
                       IN  /\ IsInner(M2.tree)
                           /\ At(M2, M2.tree).type = At(M1, M1.tree).type
    /\ \A tid \in FanErasable \cup FanInsertable :
           ChangesOnce(ToggleRun(Mem, tid, tid \in keys, Toggles))

\* a Node16 with four children: it grew at five and one was erased
C17_Witness ==
    /\ IsInner(tree)
    /\ At(Mem, tree).type = NodeType16
    /\ At(Mem, tree).count = Capacity(NodeType4)
    /\ \E tid \in FanErasable : Shrinks(Mem, tid)
    /\ \E tid \in FanInsertable \ keys :
           LET M1 == InsertKey(Mem, tid)
           IN  At(M1, M1.tree).count = Capacity(NodeType4) + 1

(***************************************************************************)
(* What findChild answers for each of the 256 key bytes, and the bytes of  *)
(* the prefix a node stores.                                               *)
(***************************************************************************)
ChildMap(M, node) == [b \in Byte |-> Deref(M, findChild(M, node, b))]

StoredPrefix(n) ==
    [i \in 0..(min(n.prefixLength, maxPrefixLength) - 1) |-> n.prefix[i]]

\* the node that replaces the root node has its prefix and the child map given
SameNode(M, M1, map) ==
    /\ At(M1, M1.tree).prefixLength = At(M, M.tree).prefixLength
    /\ StoredPrefix(At(M1, M1.tree)) = StoredPrefix(At(M, M.tree))
    /\ ChildMap(M1, M1.tree) = map
    /\ At(M1, M1.tree).count = Cardinality({b \in Byte : map[b] # NULL})

(***************************************************************************)
(* C18. Where an insert replaces the root node by one of the next variant, *)
(* the new node has the prefix length and the stored prefix of the old     *)
(* one, findChild answers for every byte what it answered in the old node  *)
(* and the new leaf for the byte inserted, and count is the number of      *)
(* bytes with a child; where an erase replaces the root node by one of the *)
(* previous variant, the same with no child for the byte erased.           *)
(***************************************************************************)
C18_GrowShrinkPreserve ==
    /\ \A tid \in FanSet \ keys :
           Grows(Mem, tid) =>
               LET b == EdgeByte(Mem, tree, tid)
                   old == ChildMap(Mem, tree)
               IN  /\ old[b] = NULL
                   /\ SameNode(Mem, InsertKey(Mem, tid),
                               [old EXCEPT ![b] = makeLeaf(tid)])
    /\ \A tid \in keys :
           Shrinks(Mem, tid) =>
               LET b == EdgeByte(Mem, tree, tid)
                   old == ChildMap(Mem, tree)
               IN  /\ old[b] = makeLeaf(tid)
                   /\ SameNode(Mem, EraseKey(Mem, tid),
                               [old EXCEPT ![b] = NULL])

\* a full Node4 with an inner node among its children that the caller's next
\* insert replaces by a Node16, and a Node16 its next erase replaces by a Node4
C18_Witness ==
    /\ IsInner(tree)
    /\ \E b \in Byte : IsInner(ChildMap(Mem, tree)[b])
    /\ \/ /\ At(Mem, tree).type = NodeType4
          /\ \E tid \in FanInsertable \ keys : Grows(Mem, tid)
       \/ /\ At(Mem, tree).type = NodeType16
          /\ \E tid \in FanErasable \cap keys : Shrinks(Mem, tid)

(***************************************************************************)
(* The inner nodes of the tree, each with the slot that points to it and   *)
(* the depth insert reaches it at.                                         *)
(***************************************************************************)
RECURSIVE Places(_, _, _, _)
Places(M, node, nodeRef, depth) ==
    IF node = NULL \/ isLeaf(node) THEN {}
    ELSE LET d == depth + At(M, node).prefixLength
         IN  {[node |-> node, nodeRef |-> nodeRef, depth |-> depth]}
                \cup UNION {Places(M, Deref(M, findChild(M, node, b)),
                                   findChild(M, node, b), d + 1) :
                               b \in MappedBytes(M, node)}

\* the tid whose key is the key given
TidOf(key) == Hex([i \in 1..WordBytes |-> key[i - 1]])

\* a key that leaves the compressed path of a node at position m: the key of
\* the node's minimum with another byte at depth + m
Diverging(M, pl, m) ==
    LET minKey == loadKey(getLeafValue(minimum(M, pl.node)))
    IN  [minKey EXCEPT ![pl.depth + m] = (@ + 1) % 256]

\* what C19 says of the insert of a key that leaves the path of pl at m
SplitAt(M, pl, m) ==
    \A key \in {Diverging(M, pl, m)} :
    \A M1 \in {InsertKey(M, TidOf(key))} :
        LET old == At(M, pl.node)
            minKey == loadKey(getLeafValue(minimum(M, pl.node)))
            new == Deref(M1, pl.nodeRef)
            map == ChildMap(M1, new)
        IN  /\ IsInner(new)
            /\ new # pl.node
            /\ At(M1, new).type = NodeType4
            /\ At(M1, new).prefixLength = m
            /\ At(M1, new).count = 2
            /\ map = [b \in Byte |->
                         IF b = minKey[pl.depth + m] THEN pl.node
                         ELSE IF b = key[pl.depth + m]
                              THEN makeLeaf(TidOf(key)) ELSE NULL]
            /\ At(M1, pl.node).prefixLength = old.prefixLength - m - 1
            /\ At(M1, pl.node).type = old.type
            /\ ChildMap(M1, pl.node) = ChildMap(M, pl.node)
            /\ \A i \in DOMAIN InOrder(M, pl.node) :
                   LET k == InOrder(M, pl.node)[i]
                   IN  Lookup(M1, k) = makeLeaf(k)
            /\ Lookup(M1, TidOf(key)) = makeLeaf(TidOf(key))

(***************************************************************************)
(* C19. Prefix split.  For every inner node with a prefix of length L > 0  *)
(* that insert reaches at depth d, and every m < L: after the insert of a  *)
(* key that first leaves the compressed path of the node at position m,    *)
(* the slot of the node holds a new Node4 with prefix length m and two     *)
(* children, the old node under byte m of its former path, its prefix      *)
(* length now L - m - 1, and the new leaf under key[d + m]; every key      *)
(* under the old node and the new key are found.  Both with L less than    *)
(* maxPrefixLength and with L at least maxPrefixLength.                    *)
(***************************************************************************)
C19_PrefixSplit ==
    \A pl \in Places(Mem, tree, TreeRef, 0) :
        \A m \in 0..(At(Mem, pl.node).prefixLength - 1) :
            SplitAt(Mem, pl, m)

\* a node below the root with a prefix longer than the node stores, and a
\* split of it past the stored bytes
C19_Witness ==
    \E pl \in Places(Mem, tree, TreeRef, 0) :
        /\ pl.depth > 0
        /\ At(Mem, pl.node).prefixLength > maxPrefixLength
        /\ LET m == maxPrefixLength
               M1 == InsertKey(Mem, TidOf(Diverging(Mem, pl, m)))
           IN  /\ At(M1, Deref(M1, pl.nodeRef)).prefixLength = m
               /\ At(M1, pl.node).prefixLength =
                      At(Mem, pl.node).prefixLength - m - 1

(***************************************************************************)
(* The points of insert and erase: the memory after each statement that    *)
(* writes a node or a slot, in the order of the statements.  A loop that   *)
(* fills a new node is one point, and so are the statements that write a   *)
(* prefix.  The last point is the memory the operation leaves.             *)
(***************************************************************************)
SetNode(M, a, n) == [M EXCEPT !.heap[a] = n]

Last(s) == s[Len(s)]

\* the "insert element" branch of insertNode4 and insertNode16: the two
\* memmoves, the two stores and count++
ShiftIn(M, a, pos, keyStored, child) ==
    LET n0 == M.heap[a]
        n1 == [n0 EXCEPT !.key = Memcpy(n0.key, pos + 1, n0.key, pos,
                                        n0.count - pos)]
        n2 == [n1 EXCEPT !.child = Memcpy(n0.child, pos + 1, n0.child, pos,
                                          n0.count - pos)]
        n3 == [n2 EXCEPT !.key[pos] = keyStored]
        n4 == [n3 EXCEPT !.child[pos] = child]
        n5 == [n4 EXCEPT !.count = n0.count + 1]
    IN  <<SetNode(M, a, n1), SetNode(M, a, n2), SetNode(M, a, n3),
          SetNode(M, a, n4), SetNode(M, a, n5)>>

\* the two memmoves of eraseNode4 and eraseNode16 and count--
ShiftOut(M, a, pos) ==
    LET n0 == M.heap[a]
        n1 == [n0 EXCEPT !.key = Memcpy(n0.key, pos, n0.key, pos + 1,
                                        n0.count - pos - 1)]
        n2 == [n1 EXCEPT !.child = Memcpy(n0.child, pos, n0.child, pos + 1,
                                          n0.count - pos - 1)]
        n3 == [n2 EXCEPT !.count = n0.count - 1]
    IN  <<SetNode(M, a, n1), SetNode(M, a, n2), SetNode(M, a, n3)>>

insertNode256Steps(M, a, nodeRef, keyByte, child) ==
    LET n0 == M.heap[a]
        n1 == [n0 EXCEPT !.count = n0.count + 1]
        n2 == [n1 EXCEPT !.child[keyByte] = child]
    IN  <<SetNode(M, a, n1), SetNode(M, a, n2)>>

insertNode48Steps(M, a, nodeRef, keyByte, child) ==
    LET n0 == M.heap[a]
    IN  IF n0.count < 48 THEN
            LET pos == IF n0.child[n0.count] # NULL
                       THEN SetMin({i \in 0..47 : n0.child[i] = NULL})
                       ELSE n0.count
                n1 == [n0 EXCEPT !.child[pos] = child]
                n2 == [n1 EXCEPT !.childIndex[keyByte] = pos]
                n3 == [n2 EXCEPT !.count = n0.count + 1]
            IN  <<SetNode(M, a, n1), SetNode(M, a, n2), SetNode(M, a, n3)>>
        ELSE
            LET a2 == New(M)
                g1 == SetNode(M, a2, Node256)
                g2 == SetNode(g1, a2,
                        [Node256 EXCEPT !.child = [i \in Byte |->
                            IF n0.childIndex[i] # 48
                            THEN n0.child[n0.childIndex[i]] ELSE NULL]])
                g3 == SetNode(g2, a2, [g2.heap[a2] EXCEPT !.count = n0.count])
                g4 == SetNode(g3, a2, copyPrefix(n0, g3.heap[a2]))
                g5 == Store(g4, nodeRef, PtrOf(a2))
                g6 == Delete(g5, a)
            IN  <<g1, g2, g3, g4, g5, g6>>
                    \o insertNode256Steps(g6, a2, nodeRef, keyByte, child)

insertNode16Steps(M, a, nodeRef, keyByte, child) ==
    LET n0 == M.heap[a]
    IN  IF n0.count < 16 THEN
            LET cmp == {i \in 0..15 :
                           Signed(flipSign(keyByte)) < Signed(n0.key[i])}
                bitfield == {i \in cmp : i < n0.count}
                pos == IF bitfield # {} THEN ctz(bitfield) ELSE n0.count
            IN  ShiftIn(M, a, pos, flipSign(keyByte), child)
        ELSE
            LET a2 == New(M)
                g1 == SetNode(M, a2, Node48)
                g2 == Store(g1, nodeRef, PtrOf(a2))
                g3 == SetNode(g2, a2,
                        [Node48 EXCEPT !.child =
                            Memcpy(Node48.child, 0, n0.child, 0, n0.count)])
                g4 == SetNode(g3, a2,
                        [g3.heap[a2] EXCEPT !.childIndex = [b \in Byte |->
                            LET at == {i \in 0..(n0.count - 1) :
                                          flipSign(n0.key[i]) = b}
                            IN  IF at # {} THEN SetMax(at) ELSE emptyMarker]])
                g5 == SetNode(g4, a2, copyPrefix(n0, g4.heap[a2]))
                g6 == SetNode(g5, a2, [g5.heap[a2] EXCEPT !.count = n0.count])
                g7 == Delete(g6, a)
            IN  <<g1, g2, g3, g4, g5, g6, g7>>
                    \o insertNode48Steps(g7, a2, nodeRef, keyByte, child)

insertNode4Steps(M, a, nodeRef, keyByte, child) ==
    LET n0 == M.heap[a]
    IN  IF n0.count < 4 THEN
            LET stop == {p \in 0..3 : ~(p < n0.count /\ n0.key[p] < keyByte)}
                pos == SetMin(stop \cup {n0.count})
            IN  ShiftIn(M, a, pos, keyByte, child)
        ELSE
            LET a2 == New(M)
                g1 == SetNode(M, a2, Node16)
                g2 == Store(g1, nodeRef, PtrOf(a2))
                g3 == SetNode(g2, a2, [Node16 EXCEPT !.count = 4])
                g4 == SetNode(g3, a2, copyPrefix(n0, g3.heap[a2]))
                g5 == SetNode(g4, a2,
                        [g4.heap[a2] EXCEPT !.key = [i \in 0..15 |->
                            IF i < 4 THEN flipSign(n0.key[i])
                            ELSE Node16.key[i]]])
                g6 == SetNode(g5, a2,
                        [g5.heap[a2] EXCEPT !.child =
                            Memcpy(Node16.child, 0, n0.child, 0, n0.count)])
                g7 == Delete(g6, a)
            IN  <<g1, g2, g3, g4, g5, g6, g7>>
                    \o insertNode16Steps(g7, a2, nodeRef, keyByte, child)

RECURSIVE insertSteps(_, _, _, _, _, _)
insertSteps(M, node, nodeRef, key, depth, value) ==
    IF node = NULL THEN <<Store(M, nodeRef, makeLeaf(value))>>
    ELSE IF isLeaf(node) THEN
        LET existingKey == loadKey(getLeafValue(node))
            newPrefixLength == CommonLength(existingKey, key, depth)
            a == New(M)
            l1 == SetNode(M, a, Node4)
            l2 == SetNode(l1, a,
                    [Node4 EXCEPT
                        !.prefixLength = newPrefixLength,
                        !.prefix = Memcpy(Node4.prefix, 0, key, depth,
                                          min(newPrefixLength, maxPrefixLength))])
            l3 == Store(l2, nodeRef, PtrOf(a))
            first == insertNode4Steps(l3, a, nodeRef,
                                      existingKey[depth + newPrefixLength], node)
        IN  <<l1, l2, l3>> \o first
                \o insertNode4Steps(Last(first), a, nodeRef,
                                    key[depth + newPrefixLength], makeLeaf(value))
    ELSE
        LET old == At(M, node)
            mismatchPos == IF old.prefixLength # 0
                           THEN prefixMismatch(M, node, key, depth)
                           ELSE 0
        IN  IF old.prefixLength # 0 /\ mismatchPos # old.prefixLength THEN
                LET a == New(M)
                    o == AddrOf(node)
                    len == old.prefixLength - (mismatchPos + 1)
                    p1 == SetNode(M, a, Node4)
                    p2 == Store(p1, nodeRef, PtrOf(a))
                    p3 == SetNode(p2, a,
                            [Node4 EXCEPT
                                !.prefixLength = mismatchPos,
                                !.prefix = Memcpy(Node4.prefix, 0, old.prefix, 0,
                                                  min(mismatchPos, maxPrefixLength))])
                    split ==
                        IF old.prefixLength < maxPrefixLength THEN
                            LET first == insertNode4Steps(p3, a, nodeRef,
                                                          old.prefix[mismatchPos], node)
                            IN  first \o
                                <<SetNode(Last(first), o,
                                    [old EXCEPT
                                        !.prefixLength = len,
                                        !.prefix = Memcpy(old.prefix, 0, old.prefix,
                                                          mismatchPos + 1,
                                                          min(len, maxPrefixLength))])>>
                        ELSE
                            LET q1 == SetNode(p3, o, [old EXCEPT !.prefixLength = len])
                                minKey == loadKey(getLeafValue(minimum(q1, node)))
                                first == insertNode4Steps(q1, a, nodeRef,
                                                          minKey[depth + mismatchPos],
                                                          node)
                            IN  <<q1>> \o first \o
                                <<SetNode(Last(first), o,
                                    [q1.heap[o] EXCEPT !.prefix =
                                        Memcpy(old.prefix, 0, minKey,
                                               depth + mismatchPos + 1,
                                               min(len, maxPrefixLength))])>>
                IN  <<p1, p2, p3>> \o split
                        \o insertNode4Steps(Last(split), a, nodeRef,
                                            key[depth + mismatchPos], makeLeaf(value))
            ELSE
                LET d == depth + old.prefixLength
                    child == findChild(M, node, key[d])
                    n == AddrOf(node)
                IN  IF Deref(M, child) # NULL THEN
                        insertSteps(M, Deref(M, child), child, key, d + 1, value)
                    ELSE IF old.type = NodeType4 THEN
                        insertNode4Steps(M, n, nodeRef, key[d], makeLeaf(value))
                    ELSE IF old.type = NodeType16 THEN
                        insertNode16Steps(M, n, nodeRef, key[d], makeLeaf(value))
                    ELSE IF old.type = NodeType48 THEN
                        insertNode48Steps(M, n, nodeRef, key[d], makeLeaf(value))
                    ELSE
                        insertNode256Steps(M, n, nodeRef, key[d], makeLeaf(value))

eraseNode4Steps(M, a, nodeRef, leafPlace) ==
    LET out == ShiftOut(M, a, leafPlace[3])
        shifted == Last(out).heap[a]
    IN  IF shifted.count = 1 THEN
            LET child == shifted.child[0]
                c1 == IF ~isLeaf(child)
                      THEN <<SetNode(Last(out), AddrOf(child),
                                     concatPrefixes(shifted, At(M, child)))>>
                      ELSE <<>>
                c2 == Store(Last(out \o c1), nodeRef, child)
            IN  out \o c1 \o <<c2, Delete(c2, a)>>
        ELSE out

eraseNode16Steps(M, a, nodeRef, leafPlace) ==
    LET out == ShiftOut(M, a, leafPlace[3])
        shifted == Last(out).heap[a]
    IN  IF shifted.count = 3 THEN
            LET a2 == New(M)
                g1 == SetNode(Last(out), a2, Node4)
                g2 == SetNode(g1, a2, [Node4 EXCEPT !.count = shifted.count])
                g3 == SetNode(g2, a2, copyPrefix(shifted, g2.heap[a2]))
                g4 == SetNode(g3, a2,
                        [g3.heap[a2] EXCEPT !.key =
                            [i \in 0..3 |-> flipSign(shifted.key[i])]])
                g5 == SetNode(g4, a2,
                        [g4.heap[a2] EXCEPT !.child =
                            Memcpy(Node4.child, 0, shifted.child, 0, 4)])
                g6 == Store(g5, nodeRef, PtrOf(a2))
            IN  out \o <<g1, g2, g3, g4, g5, g6, Delete(g6, a)>>
        ELSE out

eraseNode48Steps(M, a, nodeRef, keyByte) ==
    LET n0 == M.heap[a]
        n1 == [n0 EXCEPT !.child[n0.childIndex[keyByte]] = NULL]
        n2 == [n1 EXCEPT !.childIndex[keyByte] = emptyMarker]
        n3 == [n2 EXCEPT !.count = n0.count - 1]
        out == <<SetNode(M, a, n1), SetNode(M, a, n2), SetNode(M, a, n3)>>
    IN  IF n3.count = 12 THEN
            LET a2 == New(M)
                g1 == SetNode(Last(out), a2, Node16)
                g2 == Store(g1, nodeRef, PtrOf(a2))
                g3 == SetNode(g2, a2, copyPrefix(n3, Node16))
                g4 == SetNode(g3, a2, ShrinkTo16(n3, g3.heap[a2]))
            IN  out \o <<g1, g2, g3, g4, Delete(g4, a)>>
        ELSE out

eraseNode256Steps(M, a, nodeRef, keyByte) ==
    LET n0 == M.heap[a]
        n1 == [n0 EXCEPT !.child[keyByte] = NULL]
        n2 == [n1 EXCEPT !.count = n0.count - 1]
        out == <<SetNode(M, a, n1), SetNode(M, a, n2)>>
    IN  IF n2.count = 37 THEN
            LET a2 == New(M)
                g1 == SetNode(Last(out), a2, Node48)
                g2 == Store(g1, nodeRef, PtrOf(a2))
                g3 == SetNode(g2, a2, copyPrefix(n2, Node48))
                g4 == SetNode(g3, a2, ShrinkTo48(n2, g3.heap[a2]))
            IN  out \o <<g1, g2, g3, g4, Delete(g4, a)>>
        ELSE out

RECURSIVE eraseSteps(_, _, _, _, _)
eraseSteps(M, node, nodeRef, key, depth) ==
    IF node = NULL THEN <<>>
    ELSE IF isLeaf(node) THEN
        IF leafMatches(node, key, depth) THEN <<Store(M, nodeRef, NULL)>>
        ELSE <<>>
    ELSE
        LET n == At(M, node)
            a == AddrOf(node)
        IN  IF n.prefixLength # 0
               /\ prefixMismatch(M, node, key, depth) # n.prefixLength
            THEN <<>>
            ELSE
                LET d == depth + n.prefixLength
                    child == findChild(M, node, key[d])
                IN  IF isLeaf(Deref(M, child))
                       /\ leafMatches(Deref(M, child), key, d)
                    THEN
                        IF n.type = NodeType4 THEN
                            eraseNode4Steps(M, a, nodeRef, child)
                        ELSE IF n.type = NodeType16 THEN
                            eraseNode16Steps(M, a, nodeRef, child)
                        ELSE IF n.type = NodeType48 THEN
                            eraseNode48Steps(M, a, nodeRef, key[d])
                        ELSE
                            eraseNode256Steps(M, a, nodeRef, key[d])
                    ELSE eraseSteps(M, Deref(M, child), child, key, d + 1)

\* the points of the caller's insert and erase of a tid, the start included
InsertPoints(M, tid) ==
    <<M>> \o insertSteps(M, M.tree, TreeRef, loadKey(tid), 0, tid)

ErasePoints(M, tid) ==
    <<M>> \o eraseSteps(M, M.tree, TreeRef, loadKey(tid), 0)

(***************************************************************************)
(* Ownership.  The slots of a memory are the root handle, <<0, 0>>, and    *)
(* the entries of children[] that findChild can return in the nodes        *)
(* reached from the root: the first count entries of a Node4 or Node16,    *)
(* the entries childIndex points to in a Node48, every entry of a Node256. *)
(***************************************************************************)
LiveSlots(n) ==
    IF n.type \in {NodeType4, NodeType16} THEN 0..(n.count - 1)
    ELSE IF n.type = NodeType48 THEN
        {n.childIndex[b] : b \in {c \in Byte : n.childIndex[c] # emptyMarker}}
    ELSE IF n.type = NodeType256 THEN Byte
    ELSE {}

RECURSIVE Reached(_, _)
Reached(M, node) ==
    IF node = NULL \/ isLeaf(node) THEN {}
    ELSE LET n == At(M, node)
         IN  {AddrOf(node)}
                \cup UNION {Reached(M, n.child[i]) : i \in LiveSlots(n)}

Slots(M) ==
    {<<0, 0>>}
        \cup UNION {{<<a, i>> : i \in LiveSlots(M.heap[a])} :
                       a \in Reached(M, M.tree)}

SlotValue(M, s) == IF s[1] = 0 THEN M.tree ELSE M.heap[s[1]].child[s[2]]

\* the slots that hold a pointer, and the pointers the slots hold
Owners(M, p) == {s \in Slots(M) : SlotValue(M, s) = p}

Held(M) == {SlotValue(M, s) : s \in Slots(M)} \ {NULL}

\* no inner node is in two slots
Exclusive(M) ==
    \A p \in Held(M) : IsInner(p) => Cardinality(Owners(M, p)) = 1

\* every node reached is in exactly one slot, and no slot holds a node deleted
IsTree(M) ==
    \A p \in Held(M) :
        /\ Cardinality(Owners(M, p)) = 1
        /\ IsInner(p) => At(M, p).type # Freed

\* an inner node is in two slots only where they are two entries of one Node4
\* or Node16 next to each other, as a memmove of its entries leaves them
ShiftOnly(M) ==
    \A p \in Held(M) :
        IsInner(p) =>
            \/ Cardinality(Owners(M, p)) = 1
            \/ \E s \in Owners(M, p) :
                   /\ s[1] # 0
                   /\ M.heap[s[1]].type \in {NodeType4, NodeType16}
                   /\ Owners(M, p) = {s, <<s[1], s[2] + 1>>}

\* the tids the caller's next insert takes here: those of the fan, and those
\* that split a prefix
Inserted ==
    (FanInsertable \ keys)
        \cup {TidOf(Diverging(Mem, pl, m)) :
                <<pl, m>> \in {<<q, j>> \in Places(Mem, tree, TreeRef, 0)
                                            \X (0..(WordBytes - 1)) :
                                 j < At(Mem, q.node).prefixLength}}

C20_ExclusiveAtEveryPoint ==
    /\ IsTree(Mem)
    /\ \A tid \in Inserted :
           \A pts \in {InsertPoints(Mem, tid)} :
               \A i \in DOMAIN pts : Exclusive(pts[i])
    /\ \A tid \in FanErasable :
           \A pts \in {ErasePoints(Mem, tid)} :
               \A i \in DOMAIN pts : Exclusive(pts[i])

(***************************************************************************)
(* C20, amended.  After each completed insert and erase every node reached *)
(* from the root is held by exactly one slot, the root handle or an entry  *)
(* of children[] that findChild can return, and no slot holds a deleted    *)
(* node.  At the points of an insert or erase, those of grow, shrink, leaf *)
(* split, prefix split and collapse included, an inner node is in two      *)
(* slots only between the memmove of children[] in insertNode4,            *)
(* insertNode16, eraseNode4 or eraseNode16 and the store or count-- that   *)
(* follows, and then in two entries of that one node next to each other.   *)
(* The last point of an operation is the memory the operation leaves.      *)
(***************************************************************************)
C20_ExclusiveOwnership ==
    /\ IsTree(Mem)
    /\ \A tid \in Inserted :
           \A pts \in {InsertPoints(Mem, tid)} :
               /\ \A i \in DOMAIN pts : ShiftOnly(pts[i])
               /\ Last(pts) = InsertKey(Mem, tid)
               /\ IsTree(Last(pts))
    /\ \A tid \in FanErasable :
           \A pts \in {ErasePoints(Mem, tid)} :
               /\ \A i \in DOMAIN pts : ShiftOnly(pts[i])
               /\ Last(pts) = EraseKey(Mem, tid)
               /\ IsTree(Last(pts))

\* an erase of the caller during which an inner node is in two slots, and an
\* insert of the caller that splits the prefix of a node with children
C20_Witness ==
    /\ \E tid \in FanErasable \cap keys :
           \E pts \in {ErasePoints(Mem, tid)} :
               \E i \in DOMAIN pts : ~Exclusive(pts[i])
    /\ \E tid \in Inserted \ FanInsertable :
           \E pts \in {InsertPoints(Mem, tid)} :
               /\ Len(pts) > 8
               /\ \E b \in Byte : IsInner(ChildMap(Mem, tree)[b])

(***************************************************************************)
(* C21. nullNode, the slot findChild returns for a byte without a child,   *)
(* holds NULL in every state and at every point of every insert and erase  *)
(* of the caller, the erases of absent keys included; and no node or root  *)
(* handle holds the address of nullNode.                                   *)
(***************************************************************************)
\* the address of nullNode is in the root handle or in a node
SentinelStored(M) ==
    \/ M.tree = NullRef
    \/ \E a \in Allocated(M) :
           \E i \in DOMAIN M.heap[a].child : M.heap[a].child[i] = NullRef

C21_SentinelNull ==
    /\ nullNode = NULL
    /\ ~SentinelStored(Mem)
    /\ \A tid \in {t \in Universe : Insertable(t)} :
           \A pts \in {InsertPoints(Mem, tid)} :
               \A i \in DOMAIN pts :
                   pts[i].nullNode = NULL /\ ~SentinelStored(pts[i])
    /\ \A tid \in Universe :
           \A pts \in {ErasePoints(Mem, tid)} :
               \A i \in DOMAIN pts :
                   pts[i].nullNode = NULL /\ ~SentinelStored(pts[i])

\* a node that findChild answers nullNode in, for the byte of a key that the
\* caller may insert and for the byte of an absent key that the caller erases
C21_Witness ==
    /\ IsInner(tree)
    /\ At(Mem, tree).prefixLength > 0
    /\ \E tid \in {t \in Universe : Insertable(t)} :
           /\ prefixMismatch(Mem, tree, loadKey(tid), 0)
                 = At(Mem, tree).prefixLength
           /\ findChild(Mem, tree, EdgeByte(Mem, tree, tid)) = NullRef
           /\ InsertKey(Mem, tid).nullNode = NULL
    /\ \E tid \in Universe \ keys :
           /\ prefixMismatch(Mem, tree, loadKey(tid), 0)
                 = At(Mem, tree).prefixLength
           /\ findChild(Mem, tree, EdgeByte(Mem, tree, tid)) = NullRef
           /\ EraseKey(Mem, tid) = Mem

(***************************************************************************)
(* C22. After every completed insert and erase the count of every inner    *)
(* node lies in the range of its variant: 2..4 in an N4, 4..16 in an N16,  *)
(* 13..48 in an N48, 38..256 in an N256.                                   *)
(***************************************************************************)
\* the least and the greatest count a node of a type is left with
CountMin(type) ==
    IF type = NodeType4 THEN 2
    ELSE IF type = NodeType16 THEN 4
    ELSE IF type = NodeType48 THEN 13
    ELSE 38

CountMax(type) ==
    IF type = NodeType4 THEN 4
    ELSE IF type = NodeType16 THEN 16
    ELSE IF type = NodeType48 THEN 48
    ELSE 256

CountInRange(n) ==
    /\ n.type \in {NodeType4, NodeType16, NodeType48, NodeType256}
    /\ n.count >= CountMin(n.type)
    /\ n.count <= CountMax(n.type)

C22_CountRanges ==
    \A a \in Nodes(Mem, tree) : CountInRange(heap[a])

\* the fan node at the least count of its variant, reached by an erase, such
\* that one more erase replaces it by the next smaller variant, itself in
\* range; and an N4 at its least count next to it
C22_Witness ==
    /\ IsInner(tree)
    /\ At(Mem, tree).type = NodeType16
    /\ At(Mem, tree).count = CountMin(NodeType16)
    /\ \E a \in Nodes(Mem, tree) :
           heap[a].type = NodeType4 /\ heap[a].count = CountMin(NodeType4)
    /\ \E tid \in FanErasable :
           LET M2 == EraseKey(Mem, tid)
           IN  /\ IsInner(M2.tree)
               /\ At(M2, M2.tree).type = NodeType4
               /\ At(M2, M2.tree).count = 3

(***************************************************************************)
(* C23. Path consistency.  After any sequence of inserts of absent keys    *)
(* and erases, for every leaf with key k and every inner node on the path  *)
(* from the root to it, at depth d: all prefixLength bytes of the node's   *)
(* compressed path, stored in the header or not, equal                     *)
(* k[d .. d + prefixLength), so that all leaves under the node agree on    *)
(* them; the byte under which the next node of the path is stored equals   *)
(* k[d + prefixLength]; and the depth consumed on reaching the leaf is at  *)
(* most the key length.                                                    *)
(***************************************************************************)
\* the keys of the leaves of the subtree at a pointer
LeafKeys(M, node) ==
    {loadKey(t) : t \in {InOrder(M, node)[i] : i \in 1..Len(InOrder(M, node))}}

RECURSIVE PathOK(_, _, _)
PathOK(M, node, depth) ==
    IF node = NULL THEN TRUE
    ELSE IF isLeaf(node) THEN depth <= keyLength
    ELSE LET n == At(M, node)
             cs == ChildSeq(n)
             minKey == loadKey(getLeafValue(minimum(M, node)))
         IN  /\ depth + n.prefixLength < keyLength
             /\ \A k \in LeafKeys(M, node) :
                    \A i \in 0..(n.prefixLength - 1) :
                        /\ k[depth + i] = minKey[depth + i]
                        /\ i < maxPrefixLength => n.prefix[i] = k[depth + i]
             /\ \A i \in 1..Len(cs) :
                    /\ \A k \in LeafKeys(M, cs[i][2]) :
                           k[depth + n.prefixLength] = cs[i][1]
                    /\ PathOK(M, cs[i][2], depth + n.prefixLength + 1)

C23_PathConsistency == PathOK(Mem, tree, 0)

\* a tree of three leaves whose root has a compressed path longer than the
\* header stores and an inner child with a compressed path of its own, and
\* in which an erase makes an N4 one-way, so that its child takes over a
\* path of the two prefixes and the edge byte between them
C23_Witness ==
    /\ IsInner(tree)
    /\ Cardinality(keys) >= 3
    /\ At(Mem, tree).prefixLength > maxPrefixLength
    /\ \E a \in Nodes(Mem, tree) :
           PtrOf(a) # tree /\ heap[a].prefixLength > 0
    /\ \E k \in keys :
           LET M2 == EraseKey(Mem, k)
           IN  /\ IsInner(M2.tree)
               /\ Cardinality(Nodes(M2, M2.tree)) < Cardinality(Nodes(Mem, tree))
               /\ At(M2, M2.tree).prefixLength > At(Mem, tree).prefixLength
               /\ PathOK(M2, M2.tree, 0)

(***************************************************************************)
(* C24. Structural round trip of split and collapse.  If the insert of an  *)
(* absent key k puts a new Node4 in a slot, by a leaf split or by a prefix *)
(* split, then the erase of k right after it restores the tree: the slot   *)
(* holds the original leaf, or the original inner node with its original   *)
(* prefix length and its original stored prefix bytes, the first           *)
(* min(prefixLength, maxPrefixLength); all other nodes are unchanged.      *)
(***************************************************************************)
\* the keys the round trip is tried with: the key of a leaf of the tree with
\* one byte changed, no leaf of the tree having it
SplitProbes ==
    {key \in {[loadKey(t) EXCEPT ![j] = (@ + 1) % 256] :
                 t \in keys, j \in 0..(keyLength - 1)} :
        \A t \in keys : StoredKey(t) # key}

\* the slots of the tree after the insert that hold a Node4 of two children
\* the insert allocated
SplitBy(M, M1) ==
    {s \in Slots(M1) :
        /\ IsInner(SlotValue(M1, s))
        /\ AddrOf(SlotValue(M1, s)) \notin Allocated(M)
        /\ At(M1, SlotValue(M1, s)).type = NodeType4
        /\ At(M1, SlotValue(M1, s)).count = 2}

\* M2 is M again as far as C24 says: the slot, the node in it, the other nodes
RestoredAt(M, M2, s) ==
    LET orig == SlotValue(M, s)
        o == AddrOf(orig)
    IN  /\ SlotValue(M2, s) = orig
        /\ M2.tree = M.tree
        /\ IsInner(orig) =>
               /\ M2.heap[o].prefixLength = M.heap[o].prefixLength
               /\ StoredPrefix(M2.heap[o]) = StoredPrefix(M.heap[o])
               /\ [M2.heap[o] EXCEPT !.prefix = M.heap[o].prefix] = M.heap[o]
        /\ \A a \in 1..MaxNodes :
               (IsInner(orig) /\ a = o) \/ M2.heap[a] = M.heap[a]

RoundTrip(M, tid) ==
    \A M1 \in {InsertKey(M, tid)} :
        \A M2 \in {EraseKey(M1, tid)} :
            \A s \in SplitBy(M, M1) : RestoredAt(M, M2, s)

C24_SplitCollapseRoundTrip ==
    \A key \in SplitProbes : RoundTrip(Mem, TidOf(key))

\* a tree in which one key splits a leaf below the root and another splits
\* the prefix of an inner node that is longer than the header stores, before
\* the end of the stored bytes
C24_Witness ==
    /\ \E key \in SplitProbes :
           \E s \in SplitBy(Mem, InsertKey(Mem, TidOf(key))) :
               /\ s # <<0, 0>>
               /\ isLeaf(SlotValue(Mem, s))
               /\ RoundTrip(Mem, TidOf(key))
    /\ \E key \in SplitProbes :
           \E s \in SplitBy(Mem, InsertKey(Mem, TidOf(key))) :
               /\ IsInner(SlotValue(Mem, s))
               /\ At(Mem, SlotValue(Mem, s)).prefixLength > maxPrefixLength
               /\ At(InsertKey(Mem, TidOf(key)),
                     SlotValue(InsertKey(Mem, TidOf(key)), s)).prefixLength
                     < maxPrefixLength
               /\ RoundTrip(Mem, TidOf(key))

====
